---- MODULE Spec2Model ----
(***************************************************************************)
(* Idempotency controller of the payment gateway:                          *)
(*   backend/app/cache.py            CacheService.*_idempotency_lock       *)
(*   backend/app/routes/unified_api.py   create_payment_order              *)
(* Every request is one run of the handler create_payment_order; each      *)
(* await of the handler is one step, so concurrent requests interleave as  *)
(* they do on the asyncio event loop and across worker processes.          *)
(* IdempotencyService (services/idempotency_service.py) is imported by the *)
(* route but is not part of the sources; it is modelled from section 4.4   *)
(* of the specification.                                                   *)
(*                                                                         *)
(* Credential vault: backend/app/services/credential_manager.py, with the  *)
(* operator endpoints of backend/app/main.py (specification VaultSpec).    *)
(* Environment router: backend/app/services/request_router.py              *)
(* (specification RouterSpec).                                             *)
(* Webhook endpoints: backend/app/routes/webhooks.py with                  *)
(* backend/app/services/webhook_verifier.py (specification WebhookSpec).   *)
(* Each specification moves the variables of its own component and leaves  *)
(* the others as constructed; the webhook endpoints read the credential    *)
(* rows of the router, which their specification fills.                    *)
(***************************************************************************)
EXTENDS Integers, Naturals, FiniteSets, Sequences, TLC

\* ---- bounds ----
NumRequests == 2
NumKeys == 1

Requests == 1..NumRequests
Keys == 1..NumKeys
\* request bodies: two bodies are equal or differ, which is all the handler and
\* the request hash distinguish
Bodies == {1, 2}
\* api key ids of the callers
ApiKeys == {1, 2}

\* HTTP status codes the handler answers with (0: not answered yet)
HTTP_OK == 200
HTTP_BAD_REQUEST == 400
HTTP_CONFLICT == 409
HTTP_UNPROCESSABLE == 422
HTTP_ERROR == 500

VARIABLES
    pc,        \* position of each request in create_payment_order
    req,       \* the request: api key id, idempotency key, body
    status,    \* HTTP status answered to the caller, 0 while running
    resp,      \* provider order carried by the answer, 0 if none
    called,    \* adapter.create_order was invoked by the request
    committed, \* the request's transaction log entry is committed
    holds,     \* "no", "held" after the request's acquire, "released" after its release
    conflict,  \* on arrival a record existed for the key with another hash
    checkRaised, \* history: the lookup or the hash validation raised while a record existed
    lock,      \* Redis: idempotency:lock:<key> exists
    records,   \* durable idempotency records by <<api key id, key>>
    orders     \* orders the provider has created, named by the creating call

vars == <<pc, req, status, resp, called, committed, holds, conflict, checkRaised, lock, records,
          orders>>

\* ---- state of the credential vault (services/credential_manager.py) ----
VARIABLES
    mgr,          \* one CredentialManager: current_key_version and encryption_keys
    rot,          \* a rotate_encryption_key call in progress on mgr: position and new_key
    urandom,      \* number of 32-byte keys drawn from os.urandom so far
    sealed,       \* a blob returned by encrypt_credentials, with the map it was made from
    lastEncrypt,  \* outcome of the encrypt_credentials call that has just returned
    lastDecrypt,  \* the decrypt_credentials call that has just returned: what was passed, what came back
    lastCleanup,  \* the cleanup_old_keys call that has just returned: argument, manager before, return value
    pruned,       \* history: versions that cleanup_old_keys has deleted from mgr
    admin         \* operator endpoints: version returned by the rotation, status report taken after it

vaultVars == <<mgr, rot, urandom, sealed, lastEncrypt, lastDecrypt, lastCleanup, pruned, admin>>

\* ---- state of the environment router (services/request_router.py) ----
VARIABLES
    service,      \* the provider whose rows and calls are followed
    rows,         \* service_credentials: the active rows of the tenant and provider,
                  \* by environment, in order of insertion
    preference,   \* users.preferences["environments"][provider]: "none" if not stored
    pending,      \* get_adapter calls that found no row and have not inserted theirs yet
    adapterCall   \* the get_adapter call that has just returned: arguments, table read, outcome

routerVars == <<service, rows, preference, pending, adapterCall>>

\* ---- state of the webhook endpoints (routes/webhooks.py) ----
VARIABLES
    events,       \* webhook_events: service_name and signature of the rows, in order of insertion
    acceptedIds,  \* history: transmission ids of the PayPal deliveries answered with 200
    webhookCall   \* the delivery that has just been answered: request, tables read, response

webhookVars == <<events, acceptedIds, webhookCall>>

\* ---- state of the rate limiter (cache.py, check_rate_limit) ----
VARIABLES
    limit_per_minute, \* the limit of the key that is followed
    clock,        \* Redis: the server's time in seconds
    zset,         \* Redis: the sorted set ratelimit:<api_key_id>:minute
    expireAt,     \* Redis: when the sorted set expires
    checkPc,      \* position of each check_rate_limit call
    checkNow,     \* the time each call has read
    allowedLog,   \* history: the times of the calls the script has allowed
    scriptFailed, \* history: a redis.eval has raised
    lastCheck     \* the check_rate_limit call that has just returned

limiterVars == <<limit_per_minute, clock, zset, expireAt, checkPc, checkNow, allowedLog,
                 scriptFailed, lastCheck>>

\* ---- state of the endpoints that replay from Redis (routes/unified_api.py) ----
VARIABLES
    cPc,          \* position of each request in generic_proxy or create_payment_link
    cReq,         \* the request: endpoint, user id, idempotency key
    cStatus,      \* HTTP status answered to the caller, 0 while running
    cResp,        \* the provider result carried by the answer, named by the creating request
    cHolds,       \* "no", "held" after the request's acquire, "released" after its release
    cache         \* Redis: the entries idempotent:<user id>:<key>

cachedVars == <<cPc, cReq, cStatus, cResp, cHolds, cache>>

\* everything outside the idempotency controller, the vault, the router, the
\* endpoints, the rate limiter
notIdempotency == <<vaultVars, routerVars, webhookVars, limiterVars, cachedVars>>
notVault == <<vars, routerVars, webhookVars, limiterVars, cachedVars>>
notRouter == <<vars, vaultVars, webhookVars, limiterVars, cachedVars>>
\* the endpoints read the rows that the router reads
notWebhook == <<vars, vaultVars, service, preference, pending, adapterCall, limiterVars,
                cachedVars>>
notLimiter == <<vars, vaultVars, routerVars, webhookVars, cachedVars>>
\* the endpoints that replay from Redis take the lock of create_payment_order
notCached == <<pc, req, status, resp, called, committed, holds, conflict, checkRaised, records,
               orders,
               vaultVars, routerVars, webhookVars, limiterVars>>

\* ---- durable idempotency records (IdempotencyService) ----

NoRecord == [hash |-> 0, response |-> 0]

\* hash of the normalized request body
RequestHash(body) == (body * 7 + 3) % 11

\* LookupCompleted: the stored record of the key, if any
get_idempotency_response(recs, apiKey, key) == recs[<<apiKey, key>>]

\* ValidateRequestHash: no record, or the stored hash is the request's hash
validate_request_hash(recs, apiKey, key, body) ==
    \/ recs[<<apiKey, key>>] = NoRecord
    \/ recs[<<apiKey, key>>].hash = RequestHash(body)

\* Complete: insert the record; unique-key storage rejects a second insert
store_idempotency_response(recs, apiKey, key, body, response) ==
    IF recs[<<apiKey, key>>] = NoRecord
    THEN [ok |-> TRUE,
          recs |-> [recs EXCEPT ![<<apiKey, key>>] =
                        [hash |-> RequestHash(body), response |-> response]]]
    ELSE [ok |-> FALSE, recs |-> recs]

\* ---- idempotency lock (CacheService) ----

\* redis.set(lock_key, "1", ex=ttl, nx=True): set only if the key is absent
acquire_idempotency_lock_nonx(locks, key) ==
    [acquired |-> TRUE, locks |-> [locks EXCEPT ![key] = TRUE]]

acquire_idempotency_lock(locks, key) ==
    IF locks[key]
    THEN [acquired |-> FALSE, locks |-> locks]
    ELSE [acquired |-> TRUE, locks |-> [locks EXCEPT ![key] = TRUE]]

\* redis.delete(lock_key)
release_idempotency_lock(locks, key) == [locks EXCEPT ![key] = FALSE]

\* ---- create_payment_order ----

NoRequest == [apiKey |-> 0, key |-> 0, body |-> 0]

TypeOK ==
    /\ pc \in [Requests -> {"idle", "acquire", "locked", "provider", "commit",
                            "store", "release", "done", "crashed"}]
    /\ req \in [Requests -> [apiKey : ApiKeys, key : Keys, body : Bodies] \cup {NoRequest}]
    /\ status \in [Requests -> {0, HTTP_OK, HTTP_BAD_REQUEST, HTTP_CONFLICT,
                                HTTP_UNPROCESSABLE, HTTP_ERROR}]
    /\ resp \in [Requests -> {0} \cup Requests]
    /\ called \in [Requests -> BOOLEAN]
    /\ committed \in [Requests -> BOOLEAN]
    /\ holds \in [Requests -> {"no", "held", "released"}]
    /\ conflict \in [Requests -> BOOLEAN]
    /\ checkRaised \in [Requests -> BOOLEAN]
    /\ lock \in [Keys -> BOOLEAN]
    /\ records \in [ApiKeys \X Keys -> [hash : 0..10, response : {0} \cup Requests]]
    /\ orders \in SUBSET Requests

Init ==
    /\ pc = [r \in Requests |-> "idle"]
    /\ req = [r \in Requests |-> NoRequest]
    /\ status = [r \in Requests |-> 0]
    /\ resp = [r \in Requests |-> 0]
    /\ called = [r \in Requests |-> FALSE]
    /\ committed = [r \in Requests |-> FALSE]
    /\ holds = [r \in Requests |-> "no"]
    /\ conflict = [r \in Requests |-> FALSE]
    /\ checkRaised = [r \in Requests |-> FALSE]
    /\ lock = [k \in Keys |-> FALSE]
    /\ records = [ak \in ApiKeys \X Keys |-> NoRecord]
    /\ orders = {}

\* the request ends with an answer
Answer(r, code, response) ==
    /\ status' = [status EXCEPT ![r] = code]
    /\ resp' = [resp EXCEPT ![r] = response]

\* lines 173-179: the request arrives and looks the durable record up; a
\* record is answered verbatim, an error of the lookup is logged and ignored
Lookup(r, apiKey, key, body) ==
    /\ pc[r] = "idle"
    /\ cPc[r] = "idle"
    /\ req' = [req EXCEPT ![r] = [apiKey |-> apiKey, key |-> key, body |-> body]]
    /\ conflict' = [conflict EXCEPT ![r] =
                       ~validate_request_hash(records, apiKey, key, body)]
    /\ \E lookupFails \in BOOLEAN :
          LET cached_response == get_idempotency_response(records, apiKey, key) IN
          /\ checkRaised' = [checkRaised EXCEPT ![r] =
                                 lookupFails /\ cached_response # NoRecord]
          /\ IF ~lookupFails /\ cached_response # NoRecord
             THEN /\ pc' = [pc EXCEPT ![r] = "done"]
                  /\ Answer(r, HTTP_OK, cached_response.response)
             ELSE /\ pc' = [pc EXCEPT ![r] = "acquire"]
                  /\ UNCHANGED <<status, resp>>
    /\ UNCHANGED <<called, committed, holds, lock, records, orders, notIdempotency>>

\* lines 181-187: set-if-absent on the lock, 409 when it exists
Acquire(r) ==
    /\ pc[r] = "acquire"
    /\ LET res == acquire_idempotency_lock(lock, req[r].key) IN
          /\ lock' = res.locks
          /\ IF res.acquired
             THEN /\ pc' = [pc EXCEPT ![r] = "locked"]
                  /\ holds' = [holds EXCEPT ![r] = "held"]
                  /\ UNCHANGED <<status, resp>>
             ELSE /\ pc' = [pc EXCEPT ![r] = "done"]
                  /\ Answer(r, HTTP_CONFLICT, 0)
                  /\ UNCHANGED holds
    /\ UNCHANGED <<req, called, committed, conflict, checkRaised, records, orders, notIdempotency>>

\* where the handler goes after lines 189-273: "crash" is an exception raised
\* before the try block is entered (line 190: json.dumps raises TypeError on a
\* value without a JSON encoding, and request.dict() holds the amount as a
\* Decimal; line 202: TransactionLog), "http" an HTTPException and "error" any
\* other exception raised inside the try block (flush, get_adapter, method
\* validation)
AfterPrepare(outcome) ==
    CASE outcome = "ok" -> "provider"
      [] outcome = "crash" -> "crashed"
      [] OTHER -> "release"

\* line 275: an exception of adapter.create_order leaves the try block
AfterCreateOrder(ok) == IF ok THEN "commit" ELSE "release"

AfterCommitAlwaysStore(ok) == "store"

\* line 308: an exception of db.commit leaves the try block
AfterCommit(ok) == IF ok THEN "store" ELSE "release"

PrepareOutcomes == {"ok", "crash", "http", "error"}

\* lines 189-273: serialize the request, validate its hash against the
\* record (a mismatch raises HTTPException(422) inside a try whose
\* `except Exception` logs and continues), build the log entry, enter the
\* try block, flush the log entry, get the adapter, validate the method
Prepare(r) ==
    /\ pc[r] = "locked"
    /\ \E outcome \in PrepareOutcomes :
          /\ pc' = [pc EXCEPT ![r] = AfterPrepare(outcome)]
          /\ IF outcome = "ok"
             THEN UNCHANGED <<status, resp>>
             ELSE Answer(r, IF outcome = "http" THEN HTTP_BAD_REQUEST ELSE HTTP_ERROR, 0)
          \* lines 191-199: validate_request_hash may raise, which is logged and ignored
          /\ \E validateRaises \in BOOLEAN :
                checkRaised' = [checkRaised EXCEPT ![r] =
                    @ \/ (/\ validateRaises
                          /\ outcome # "crash"
                          /\ records[<<req[r].apiKey, req[r].key>>] # NoRecord)]
    /\ UNCHANGED <<req, called, committed, holds, conflict, lock, records, orders, notIdempotency>>

\* line 275: adapter.create_order; on success the provider has a new order,
\* whose id is unique to the call: the model names it after the calling request
CreateOrder(r) ==
    /\ pc[r] = "provider"
    /\ called' = [called EXCEPT ![r] = TRUE]
    /\ \E ok \in BOOLEAN :
          /\ pc' = [pc EXCEPT ![r] = AfterCreateOrder(ok)]
          /\ IF ok
             THEN /\ orders' = orders \cup {r}
                  /\ resp' = [resp EXCEPT ![r] = r]
                  /\ UNCHANGED status
             ELSE /\ Answer(r, HTTP_ERROR, 0)
                  /\ UNCHANGED orders
    /\ UNCHANGED <<req, committed, holds, conflict, checkRaised, lock, records, notIdempotency>>

\* lines 299-308: the log entry is completed and the transaction committed
Commit(r) ==
    /\ pc[r] = "commit"
    /\ \E ok \in BOOLEAN :
          /\ pc' = [pc EXCEPT ![r] = AfterCommit(ok)]
          /\ IF ok
             THEN /\ committed' = [committed EXCEPT ![r] = TRUE]
                  /\ UNCHANGED <<status, resp>>
             ELSE /\ Answer(r, HTTP_ERROR, 0)
                  /\ UNCHANGED committed
    /\ UNCHANGED <<req, called, holds, conflict, checkRaised, lock, records, orders, notIdempotency>>

\* lines 310-325: store the record; an exception of the store is logged and
\* ignored, the result of the provider is the answer
Store(r) ==
    /\ pc[r] = "store"
    /\ \E storeFails \in BOOLEAN :
          records' = IF storeFails
                     THEN records
                     ELSE store_idempotency_response(records, req[r].apiKey,
                              req[r].key, req[r].body, resp[r]).recs
    /\ pc' = [pc EXCEPT ![r] = "release"]
    /\ Answer(r, HTTP_OK, resp[r])
    /\ UNCHANGED <<req, called, committed, holds, conflict, checkRaised, lock, orders, notIdempotency>>

\* lines 349-351: finally, delete the lock; the answer leaves the handler
Release(r) ==
    /\ pc[r] = "release"
    /\ lock' = release_idempotency_lock(lock, req[r].key)
    /\ holds' = [holds EXCEPT ![r] = "released"]
    /\ pc' = [pc EXCEPT ![r] = "done"]
    /\ UNCHANGED <<req, status, resp, called, committed, conflict, checkRaised, records, orders, notIdempotency>>

\* cache.py line 268, ex=ttl: Redis drops the lock once its TTL has elapsed
\* A lock entry written without a time to live (no ex=) is never removed by Redis.
ExpireLockNever(k) ==
    /\ lock[k]
    /\ FALSE
    /\ UNCHANGED <<vars, notIdempotency>>

\* Redis removes the lock entry when the time to live given at line 268 (ex=ttl) has elapsed.
ExpireLock(k) ==
    /\ lock[k]
    /\ lock' = [lock EXCEPT ![k] = FALSE]
    /\ UNCHANGED <<pc, req, status, resp, called, committed, holds, conflict, checkRaised, records, orders, notIdempotency>>

Next ==
    \/ \E r \in Requests, a \in ApiKeys, k \in Keys, b \in Bodies : Lookup(r, a, k, b)
    \/ \E r \in Requests : Acquire(r)
    \/ \E r \in Requests : Prepare(r)
    \/ \E r \in Requests : CreateOrder(r)
    \/ \E r \in Requests : Commit(r)
    \/ \E r \in Requests : Store(r)
    \/ \E r \in Requests : Release(r)
    \/ \E k \in Keys : ExpireLock(k)

\* ======================================================================
\* Credential vault: backend/app/services/credential_manager.py
\* A blob is a sequence of bytes: 4 bytes of key version (big endian),
\* 12 bytes of nonce, then the AES-GCM output (ciphertext and 16-byte tag).
\* AES-GCM is modelled by its contract: the output of an encryption opens
\* only under the same key and nonce and only if no byte of it was changed;
\* keys drawn from os.urandom(32) are pairwise different.
\* ======================================================================

\* ---- bounds ----
MaxVersion == 3

\* field names and values of a credential map (names are ordered as strings are)
Fields == {1, 2}
Values == {1, 2}
CredMaps == UNION {[S -> Values] : S \in SUBSET Fields}
\* byte values os.urandom(12) is drawn from
NonceBytes == {1}
\* arguments passed as keep_versions
KeepVersions == {-1, 0, 1, 2, 5}

INITIAL_KEY_VERSION == 1
VERSION_BYTES == 4
NONCE_BYTES == 12
HEADER_BYTES == 16
TAG_BYTES == 16
\* the key of settings.ENCRYPTION_KEY; keys drawn from os.urandom are 1, 2, ...
ENV_KEY == 0

\* ---- json.dumps(credentials, sort_keys=True) / json.loads ----
OPEN == <<0, 0>>
CLOSE == <<0, 1>>

MinOf(S) == CHOOSE x \in S : \A y \in S : x <= y

RECURSIVE SortedItems(_, _)
SortedItems(m, S) ==
    IF S = {} THEN <<>>
    ELSE LET f == MinOf(S) IN <<(<<f, m[f]>>)>> \o SortedItems(m, S \ {f})

json_dumps(m) == <<OPEN>> \o SortedItems(m, DOMAIN m) \o <<CLOSE>>

WellFormed(data) ==
    /\ Len(data) >= 2
    /\ data[1] = OPEN
    /\ data[Len(data)] = CLOSE
    /\ \A i \in 2..(Len(data) - 1) : data[i][1] \in Nat

json_loads(data) ==
    LET items == {data[i] : i \in 2..(Len(data) - 1)}
    IN  [f \in {it[1] : it \in items} |-> (CHOOSE it \in items : it[1] = f)[2]]

\* ---- int.to_bytes(4, 'big') / int.from_bytes(..., 'big') ----
to_bytes(v) ==
    <<(v \div 16777216) % 256, (v \div 65536) % 256, (v \div 256) % 256, v % 256>>

from_bytes(b) == b[1] * 16777216 + b[2] * 65536 + b[3] * 256 + b[4]

\* ---- AESGCM(key).encrypt(nonce, data, None) / .decrypt(nonce, ciphertext, None) ----
\* Output byte i of an encryption: i = 0 for the bytes of the tag.
Sym(key, nonce, i, data) == [k |-> key, n |-> nonce, i |-> i, d |-> data]
\* a byte that no encryption has produced
Junk == [k |-> -1, n |-> <<>>, i |-> 0, d |-> <<>>]

AESGCM_encrypt(key, nonce, data) ==
    [i \in 1..Len(data) |-> Sym(key, nonce, i, data)]
        \o [j \in 1..TAG_BYTES |-> Sym(key, nonce, 0, data)]

AESGCM_valid(key, nonce, ciphertext) ==
    /\ Len(ciphertext) >= TAG_BYTES
    /\ LET n == Len(ciphertext) - TAG_BYTES
           data == ciphertext[Len(ciphertext)].d
       IN  /\ Len(data) = n
           /\ \A i \in 1..n : ciphertext[i] = Sym(key, nonce, i, data)
           /\ \A j \in (n + 1)..Len(ciphertext) : ciphertext[j] = Sym(key, nonce, 0, data)

AESGCM_decrypt(key, nonce, ciphertext) == ciphertext[Len(ciphertext)].d

\* ---- CredentialManager ----
\* __init__: version 1 with the key of the environment
CredentialManager == [current_key_version |-> INITIAL_KEY_VERSION,
                      encryption_keys |-> (INITIAL_KEY_VERSION :> ENV_KEY)]

Ok(value) == [ok |-> TRUE, value |-> value, error |-> <<>>]
Raise(type, message) == [ok |-> FALSE, value |-> <<>>, error |-> <<type, message>>]

\* encrypt_credentials that always takes the key given at construction
encrypt_credentials_env_key(m, credentials, nonce) ==
    Ok(to_bytes(m.current_key_version) \o nonce
           \o AESGCM_encrypt(ENV_KEY, nonce, json_dumps(credentials)))

encrypt_credentials(m, credentials, nonce) ==
    IF m.current_key_version \notin DOMAIN m.encryption_keys
    THEN Raise("KeyError", "")
    ELSE Ok(to_bytes(m.current_key_version) \o nonce
                \o AESGCM_encrypt(m.encryption_keys[m.current_key_version], nonce,
                                  json_dumps(credentials)))

NoKeyMessage == "Failed to decrypt credentials: Could not decrypt data with available keys"
InvalidTagMessage == "Failed to decrypt credentials: "
JSONMessage == "Failed to decrypt credentials: Expecting value"

Open(key, nonce, ciphertext) ==
    IF ~AESGCM_valid(key, nonce, ciphertext) THEN Raise("ValueError", InvalidTagMessage)
    ELSE IF ~WellFormed(AESGCM_decrypt(key, nonce, ciphertext)) THEN Raise("ValueError", JSONMessage)
    ELSE Ok(json_loads(AESGCM_decrypt(key, nonce, ciphertext)))

\* decrypt_credentials that tries every key of the table when the version is unknown
\* or the key of the version does not open the blob
decrypt_credentials_any_key(m, combined) ==
    IF Len(combined) > HEADER_BYTES
    THEN LET nonce == SubSeq(combined, VERSION_BYTES + 1, HEADER_BYTES)
             ciphertext == SubSeq(combined, HEADER_BYTES + 1, Len(combined))
             opening == {v \in DOMAIN m.encryption_keys :
                            Open(m.encryption_keys[v], nonce, ciphertext).ok}
         IN  IF opening # {}
             THEN Open(m.encryption_keys[CHOOSE v \in opening : TRUE], nonce, ciphertext)
             ELSE Raise("ValueError", NoKeyMessage)
    ELSE Raise("ValueError", NoKeyMessage)

decrypt_credentials(m, combined) ==
    IF Len(combined) > HEADER_BYTES
    THEN LET version == from_bytes(SubSeq(combined, 1, VERSION_BYTES))
             nonce == SubSeq(combined, VERSION_BYTES + 1, HEADER_BYTES)
             ciphertext == SubSeq(combined, HEADER_BYTES + 1, Len(combined))
         IN  IF version \in DOMAIN m.encryption_keys
             THEN Open(m.encryption_keys[version], nonce, ciphertext)
             ELSE Raise("ValueError", NoKeyMessage)
    ELSE Raise("ValueError", NoKeyMessage)

\* line 111
bump_version(m) == [m EXCEPT !.current_key_version = @ + 1]

\* an installation that starts a new table
install_key_alone(m, new_key) ==
    [m EXCEPT !.encryption_keys = (m.current_key_version :> new_key)]

\* line 112
install_key(m, new_key) ==
    [m EXCEPT !.encryption_keys = (m.current_key_version :> new_key) @@ @]

\* rotate_encryption_key as one call: the manager after it and the version returned
rotate_encryption_key(m, new_key) ==
    [mgr |-> install_key(bump_version(m), new_key),
     version |-> bump_version(m).current_key_version]

\* sorted(keys), the lowest first
RECURSIVE SortedAscending(_)
SortedAscending(S) ==
    IF S = {} THEN <<>>
    ELSE LET x == CHOOSE v \in S : \A w \in S : v <= w
         IN  <<x>> \o SortedAscending(S \ {x})

\* sorted(keys, reverse=True)
RECURSIVE SortedDescending(_)
SortedDescending(S) ==
    IF S = {} THEN <<>>
    ELSE LET x == CHOOSE v \in S : \A w \in S : w <= v
         IN  <<x>> \o SortedDescending(S \ {x})

\* seq[k:] of Python
SliceFrom(seq, k) ==
    LET start == IF k < 0 THEN (IF Len(seq) + k < 0 THEN 0 ELSE Len(seq) + k)
                 ELSE (IF k > Len(seq) THEN Len(seq) ELSE k)
    IN  SubSeq(seq, start + 1, Len(seq))

Restrict(f, S) == [x \in S |-> f[x]]

\* cleanup_old_keys without the test of line 138
cleanup_old_keys_any(m, keep_versions) ==
    IF Cardinality(DOMAIN m.encryption_keys) <= keep_versions THEN m
    ELSE LET versions_to_remove ==
                 SliceFrom(SortedDescending(DOMAIN m.encryption_keys), keep_versions)
             removed == {versions_to_remove[i] : i \in 1..Len(versions_to_remove)}
         IN  [m EXCEPT !.encryption_keys = Restrict(@, DOMAIN @ \ removed)]

cleanup_old_keys(m, keep_versions) ==
    IF Cardinality(DOMAIN m.encryption_keys) <= keep_versions THEN m
    ELSE LET versions_to_remove ==
                 SliceFrom(SortedDescending(DOMAIN m.encryption_keys), keep_versions)
             removed == {versions_to_remove[i] : i \in 1..Len(versions_to_remove)}
                            \ {m.current_key_version}
         IN  [m EXCEPT !.encryption_keys = Restrict(@, DOMAIN @ \ removed)]

\* the value cleanup_old_keys returns: 0 at line 130, else removed_count, which
\* counts the versions of the slice that are not the current one
removed_count(m, keep_versions) ==
    IF Cardinality(DOMAIN m.encryption_keys) <= keep_versions THEN 0
    ELSE LET versions_to_remove ==
                 SliceFrom(SortedDescending(DOMAIN m.encryption_keys), keep_versions)
         IN  Cardinality({i \in 1..Len(versions_to_remove) :
                              versions_to_remove[i] # m.current_key_version})

get_key_info(m) == [current_version |-> m.current_key_version,
                    available_versions |-> DOMAIN m.encryption_keys]

\* ---- calls on the credential vault ----
Nonce(b) == [i \in 1..NONCE_BYTES |-> b]

NoSealed == [blob |-> <<>>, plain |-> <<>>]
NoStatus == [current_version |-> 0, available_versions |-> {}]
NoCleanup == [keep_versions |-> 0, before |-> [current_version |-> 0, available_versions |-> {}],
              removed_count |-> 0]
NoDecrypt == [part |-> "none", plain |-> <<>>, version |-> 0, current |-> 0, result |-> Ok(<<>>)]
Idle == [pc |-> "idle", new_key |-> 0]

HeaderVersion(blob) == from_bytes(SubSeq(blob, 1, VERSION_BYTES))

VaultInit ==
    /\ mgr = CredentialManager
    /\ rot = Idle
    /\ urandom = 0
    /\ sealed = NoSealed
    /\ lastEncrypt = "none"
    /\ lastDecrypt = NoDecrypt
    /\ lastCleanup = NoCleanup
    /\ pruned = {}
    /\ admin = [rotated |-> 0, status |-> NoStatus]

\* the results of the calls before are gone when the next call is made
Returned == lastEncrypt' = "none" /\ lastDecrypt' = NoDecrypt /\ lastCleanup' = NoCleanup

\* line 110: new_key = os.urandom(32)
RotateDraw ==
    /\ rot.pc = "idle"
    /\ urandom + 1 < MaxVersion
    /\ urandom' = urandom + 1
    /\ rot' = [pc |-> "drawn", new_key |-> urandom + 1]
    /\ Returned
    /\ UNCHANGED <<mgr, sealed, pruned, admin, notVault>>

\* line 111: self.current_key_version += 1
RotateBump ==
    /\ rot.pc = "drawn"
    /\ mgr' = bump_version(mgr)
    /\ rot' = [rot EXCEPT !.pc = "bumped"]
    /\ Returned
    /\ UNCHANGED <<urandom, sealed, pruned, admin, notVault>>

\* line 112: self.encryption_keys[self.current_key_version] = new_key
RotateInstall ==
    /\ rot.pc = "bumped"
    /\ mgr' = install_key(mgr, rot.new_key)
    /\ rot' = Idle
    /\ Returned
    /\ UNCHANGED <<urandom, sealed, pruned, admin, notVault>>

Cleanup(keep_versions) ==
    /\ mgr' = cleanup_old_keys(mgr, keep_versions)
    /\ pruned' = pruned \cup (DOMAIN mgr.encryption_keys \ DOMAIN mgr'.encryption_keys)
    /\ lastCleanup' = [keep_versions |-> keep_versions, before |-> get_key_info(mgr),
                       removed_count |-> removed_count(mgr, keep_versions)]
    /\ lastEncrypt' = "none"
    /\ lastDecrypt' = NoDecrypt
    /\ UNCHANGED <<rot, urandom, sealed, admin, notVault>>

Encrypt(credentials, b) ==
    LET r == encrypt_credentials(mgr, credentials, Nonce(b))
    IN  /\ lastEncrypt' = IF r.ok THEN "ok" ELSE r.error[1]
        /\ sealed' = IF r.ok THEN [blob |-> r.value, plain |-> credentials] ELSE sealed
        /\ lastDecrypt' = NoDecrypt
        /\ lastCleanup' = NoCleanup
        /\ UNCHANGED <<mgr, rot, urandom, pruned, admin, notVault>>

\* what a changed copy of a blob can look like: one byte replaced, or the end cut off
PartOf(i) ==
    IF i <= VERSION_BYTES THEN "header" ELSE IF i <= HEADER_BYTES THEN "nonce" ELSE "ciphertext"

Flips(blob, i) ==
    IF i <= VERSION_BYTES THEN (0..(MaxVersion + 1)) \ {blob[i]}
    ELSE IF i <= HEADER_BYTES THEN (NonceBytes \cup {0}) \ {blob[i]}
    ELSE {Junk} \cup (IF blob[i].i > 0 THEN {[blob[i] EXCEPT !.i = @ + 1]} ELSE {})

Candidates(blob) ==
    {[part |-> "intact", blob |-> blob]}
    \cup UNION {{[part |-> PartOf(i), blob |-> [blob EXCEPT ![i] = x]] : x \in Flips(blob, i)}
                    : i \in 1..Len(blob)}
    \cup {[part |-> "truncated", blob |-> SubSeq(blob, 1, n)]
              : n \in {0, HEADER_BYTES, HEADER_BYTES + 1, Len(blob) - 1}}

Decrypt ==
    /\ sealed # NoSealed
    /\ \E c \in Candidates(sealed.blob) :
           lastDecrypt' = [part |-> c.part,
                           plain |-> sealed.plain,
                           version |-> HeaderVersion(sealed.blob),
                           current |-> mgr.current_key_version,
                           result |-> decrypt_credentials(mgr, c.blob)]
    /\ lastEncrypt' = "none"
    /\ lastCleanup' = NoCleanup
    /\ UNCHANGED <<mgr, rot, urandom, sealed, pruned, admin, notVault>>

\* main.py rotate_encryption_key: cred_manager = CredentialManager();
\* new_version = cred_manager.rotate_encryption_key()
\* The manager and the key drawn for it are dropped when the endpoint returns.
AdminRotate ==
    /\ admin' = [rotated |-> rotate_encryption_key(CredentialManager, urandom + 1).version,
                 status |-> NoStatus]
    /\ Returned
    /\ UNCHANGED <<mgr, rot, urandom, sealed, pruned, notVault>>

\* main.py get_encryption_status: cred_manager = CredentialManager(); cred_manager.get_key_info()
AdminStatus ==
    /\ admin' = [admin EXCEPT !.status = get_key_info(CredentialManager)]
    /\ Returned
    /\ UNCHANGED <<mgr, rot, urandom, sealed, pruned, notVault>>

VaultNext ==
    \/ RotateDraw
    \/ RotateBump
    \/ RotateInstall
    \/ \E keep_versions \in KeepVersions : Cleanup(keep_versions)
    \/ \E credentials \in CredMaps, b \in NonceBytes : Encrypt(credentials, b)
    \/ Decrypt
    \/ AdminRotate
    \/ AdminStatus


\* ======================================================================
\* Environment router: backend/app/services/request_router.py
\* One tenant and one provider.  The router's CredentialManager is the one built
\* in RequestRouter.__init__; it is never rotated.
\* ======================================================================

\* ---- bounds ----
MaxRows == 2
NumCallers == 2

Callers == 1..NumCallers
Environments == {"test", "live"}
\* razorpay and paypal have an adapter; resend has a schema but no adapter; fax has neither
Services == {"razorpay", "paypal", "resend", "fax"}

\* names of credential fields and process variables, ordered as in SERVICE_ENV_PATTERNS
RAZORPAY_KEY_ID == 1
RAZORPAY_KEY_SECRET == 2
PAYPAL_CLIENT_ID == 3
PAYPAL_CLIENT_SECRET == 4
PAYPAL_MODE == 5
PAYPAL_WEBHOOK_ID == 6
RESEND_API_KEY == 7
\* the empty string
EMPTY == 0

SERVICE_ENV_PATTERNS ==
    [razorpay |-> [required |-> {RAZORPAY_KEY_ID, RAZORPAY_KEY_SECRET}, optional |-> {}],
     paypal |-> [required |-> {PAYPAL_CLIENT_ID, PAYPAL_CLIENT_SECRET},
                 optional |-> {PAYPAL_MODE, PAYPAL_WEBHOOK_ID}],
     resend |-> [required |-> {RESEND_API_KEY}, optional |-> {}]]

\* the credentials a tenant stores for the two environments, and those of the process
TestCreds == (1 :> 1) @@ (2 :> 1)
LiveCreds == (1 :> 2) @@ (2 :> 2)
ProcessCreds == (1 :> 1) @@ (2 :> 2)
NoCreds == <<>>
TenantCreds(environment) == IF environment = "test" THEN TestCreds ELSE LiveCreds

\* os.environ as the process may have it: nothing set; razorpay and paypal set, the
\* paypal webhook id set to the empty string; the razorpay secret set to the empty
\* string and the paypal secret not set; resend set
Environs ==
    {NoCreds,
     ProcessCreds @@ (PAYPAL_CLIENT_ID :> 1) @@ (PAYPAL_CLIENT_SECRET :> 1)
                  @@ (PAYPAL_MODE :> 1) @@ (PAYPAL_WEBHOOK_ID :> EMPTY),
     (RAZORPAY_KEY_ID :> 1) @@ (RAZORPAY_KEY_SECRET :> EMPTY)
                  @@ (PAYPAL_CLIENT_ID :> 1) @@ (PAYPAL_MODE :> 1),
     (RESEND_API_KEY :> 1)}

\* features_config of a row: the flags that are set
NoFeatures == {}
AutoProvisioned == {"auto_provisioned"}

NoRow == [environment |-> "none", encrypted_credential |-> <<>>,
          features_config |-> NoFeatures, is_active |-> FALSE]

OtherEnvironment(e) == IF e = "test" THEN "live" ELSE "test"

\* `value = os.environ.get(var)` followed by `if value:`
IsSet(environ, var) == var \in DOMAIN environ /\ environ[var] # EMPTY

\* a reading of the process variables that takes whatever is set, required or not
get_credentials_from_env_any(service_name, environ) ==
    IF service_name \notin DOMAIN SERVICE_ENV_PATTERNS THEN NoCreds
    ELSE LET pattern == SERVICE_ENV_PATTERNS[service_name]
             found == {v \in pattern.required \cup pattern.optional : v \in DOMAIN environ}
         IN  [v \in found |-> environ[v]]

\* get_credentials_from_env: None (NoCreds) for a provider without a schema or with
\* a required variable that is missing or empty
get_credentials_from_env(service_name, environ) ==
    IF service_name \notin DOMAIN SERVICE_ENV_PATTERNS THEN NoCreds
    ELSE LET pattern == SERVICE_ENV_PATTERNS[service_name]
             missing_vars == {v \in pattern.required : ~IsSet(environ, v)}
             found == {v \in pattern.required \cup pattern.optional : IsSet(environ, v)}
         IN  IF missing_vars # {} THEN NoCreds ELSE [v \in found |-> environ[v]]

\* what a tenant stores for a provider: the required fields of its schema, and the
\* razorpay fields for a provider without one
TenantCredsOf(service_name, environment) ==
    IF service_name \notin DOMAIN SERVICE_ENV_PATTERNS THEN TenantCreds(environment)
    ELSE [v \in SERVICE_ENV_PATTERNS[service_name].required |->
             IF environment = "test" THEN 1 ELSE 2]

\* _get_user_preferred_environment
get_user_preferred_environment(pref) == IF pref # "none" THEN pref ELSE "test"

environments_to_try(preferred_environment) ==
    IF preferred_environment = "test" THEN <<"test", "live">> ELSE <<"live", "test">>

\* the rows a query with is_active == True and environment == e selects
ActiveRows(table, environment) == SelectSeq(table[environment], LAMBDA r : r.is_active)

\* result.scalar_one_or_none() of the query for the active rows of one environment
scalar_one_or_none(table, environment) ==
    LET found == ActiveRows(table, environment)
    IN  IF Len(found) = 0 THEN Ok(NoRow)
        ELSE IF Len(found) = 1
             THEN Ok([environment |-> environment,
                      encrypted_credential |-> found[1].encrypted_credential,
                      features_config |-> found[1].features_config,
                      is_active |-> found[1].is_active])
             ELSE Raise("MultipleResultsFound", "")

\* a lookup that reads the preferred environment only
get_credentials_without_fallback(table, preferred_environment) ==
    scalar_one_or_none(table, environments_to_try(preferred_environment)[1])

\* _get_credentials_with_fallback
get_credentials_with_fallback(table, preferred_environment) ==
    LET first == scalar_one_or_none(table, environments_to_try(preferred_environment)[1])
    IN  IF ~first.ok \/ first.value # NoRow THEN first
        ELSE scalar_one_or_none(table, environments_to_try(preferred_environment)[2])

\* the row that store_service_credentials builds
ServiceCredential(m, credentials, features) ==
    [encrypted_credential |-> encrypt_credentials(m, credentials, Nonce(1)).value,
     features_config |-> features,
     is_active |-> TRUE]

\* store_service_credentials: encrypt and insert an active row
store_service_credentials(m, table, credentials, features, environment) ==
    [table EXCEPT ![environment] = Append(@, ServiceCredential(m, credentials, features))]

\* CredentialManager.get_credentials: the decrypted credentials of the active row
\* of one environment; None (NoCreds) without a row and on any exception
get_credentials(m, table, environment) ==
    LET credential == scalar_one_or_none(table, environment)
        credentials == decrypt_credentials(m, credential.value.encrypted_credential)
    IN  IF ~credential.ok THEN NoCreds
        ELSE IF credential.value = NoRow THEN NoCreds
        ELSE IF credentials.ok THEN credentials.value
        ELSE NoCreds

\* what a get_adapter call gives its caller: an adapter with the credentials it was
\* built from and the environment of their row, or the exception raised with the
\* keyword arguments of its constructor
Failed(error, args) ==
    [outcome |-> error, bound |-> "none", credentials |-> NoCreds, args |-> args]

\* lines 145-158: decrypt the row and construct the adapter
Adapter(m, service_name, credential) ==
    LET credentials == decrypt_credentials(m, credential.encrypted_credential)
    IN  IF ~credentials.ok THEN Failed(credentials.error[1], <<>>)
        ELSE IF service_name \in {"razorpay", "paypal"}
        THEN [outcome |-> "adapter", bound |-> credential.environment,
              credentials |-> credentials.value, args |-> <<>>]
        ELSE Failed("Exception", <<>>)

\* line 143: raise ProviderNotConfiguredException(provider=service)
ProviderNotConfigured(service_name) ==
    Failed("ProviderNotConfiguredException", [provider |-> service_name])

\* get_adapter up to the auto-provisioning insert (lines 96-115).
\* target_environment is "none" when the argument is not given; env_creds is
\* what get_credentials_from_env returns.  store tells whether the call goes on
\* to line 118.
get_adapter(m, service_name, table, pref, environ, target_environment) ==
    LET environment == IF target_environment = "none"
                       THEN get_user_preferred_environment(pref)
                       ELSE target_environment
        credential == get_credentials_with_fallback(table, environment)
        env_creds == get_credentials_from_env(service_name, environ)
    IN  IF ~credential.ok
        THEN [store |-> FALSE, environment |-> environment, env_creds |-> NoCreds,
              result |-> Failed(credential.error[1], <<>>)]
        ELSE IF credential.value # NoRow
        THEN [store |-> FALSE, environment |-> environment, env_creds |-> NoCreds,
              result |-> Adapter(m, service_name, credential.value)]
        ELSE IF env_creds # NoCreds
        THEN [store |-> TRUE, environment |-> environment, env_creds |-> env_creds,
              result |-> Failed("none", <<>>)]
        ELSE [store |-> FALSE, environment |-> environment, env_creds |-> NoCreds,
              result |-> ProviderNotConfigured(service_name)]

\* get_adapter from the insert on (lines 116-158); storeOk tells whether the
\* insert goes through
auto_provision(m, service_name, table, environment, env_creds, storeOk) ==
    LET provisioned == store_service_credentials(m, table, env_creds, AutoProvisioned,
                                                 environment)
        credential == provisioned[environment][Len(provisioned[environment])]
    IN  IF storeOk
        THEN [table |-> provisioned,
              result |-> Adapter(m, service_name,
                  [environment |-> environment,
                   encrypted_credential |-> credential.encrypted_credential,
                   features_config |-> credential.features_config,
                   is_active |-> credential.is_active])]
        ELSE [table |-> table, result |-> ProviderNotConfigured(service_name)]

NoTable == [e \in Environments |-> <<>>]

NoCall == [target_environment |-> "none", preference |-> "none", table |-> <<>>,
           environment |-> "none", environ |-> NoCreds, stored |-> "none", after |-> <<>>,
           result |-> Failed("none", <<>>)]

\* a caller that is not between the lookup and the insert of get_adapter
NotPending == [target_environment |-> "none", preference |-> "none", table |-> <<>>,
               environment |-> "none", environ |-> NoCreds, env_creds |-> NoCreds]

ActiveCount(table) == Len(ActiveRows(table, "test")) + Len(ActiveRows(table, "live"))

\* the rows the tenant has and those that calls under way are about to insert
RowsInSight == ActiveCount(rows) + Cardinality({c \in Callers : pending[c] # NotPending})

RouterInit ==
    /\ rows = NoTable
    /\ preference = "none"
    /\ adapterCall = NoCall
    /\ pending = [c \in Callers |-> NotPending]

\* store_service_credentials inserts an active row for the tenant, whatever rows exist
StoreCredentials(environment) ==
    /\ RowsInSight < MaxRows
    /\ rows' = store_service_credentials(CredentialManager, rows,
                                         TenantCredsOf(service, environment), NoFeatures,
                                         environment)
    /\ adapterCall' = NoCall
    /\ UNCHANGED <<service, preference, pending, notRouter>>

\* update_service_credentials: the one active row of the provider gets the new
\* credentials and the environment of the request (with more than one active row
\* scalar_one_or_none raises, with none the answer is 404, and nothing is written)
UpdateServiceCredentials(environment) ==
    /\ ActiveCount(rows) = 1
    /\ LET credential == (rows["test"] \o rows["live"])[1]
       IN  rows' = [NoTable EXCEPT ![environment] =
                       <<[credential EXCEPT !.encrypted_credential =
                             encrypt_credentials(CredentialManager,
                                                 TenantCredsOf(service, environment),
                                                 Nonce(1)).value]>>]
    /\ adapterCall' = NoCall
    /\ UNCHANGED <<service, preference, pending, notRouter>>

\* delete_service_credentials: the one active row of the provider is deactivated
\* (with more than one active row scalar_one_or_none raises and nothing is written)
DeleteServiceCredentials ==
    /\ ActiveCount(rows) = 1
    /\ rows' = NoTable
    /\ adapterCall' = NoCall
    /\ UNCHANGED <<service, preference, pending, notRouter>>

\* delete_all_services: every active row of the tenant is deactivated
DeleteAllServices ==
    /\ ActiveCount(rows) > 0
    /\ rows' = NoTable
    /\ adapterCall' = NoCall
    /\ UNCHANGED <<service, preference, pending, notRouter>>

\* switch_environment: the one active row of the provider is moved to the
\* environment of the request, then the preference is stored (404 without an
\* active row, 500 with more than one, and nothing is written)
SwitchEnvironment(environment) ==
    /\ ActiveCount(rows) = 1
    /\ rows' = [NoTable EXCEPT ![environment] = rows["test"] \o rows["live"]]
    /\ preference' = environment
    /\ adapterCall' = NoCall
    /\ UNCHANGED <<service, pending, notRouter>>

\* switch_all_environments_atomic without service_ids: one UPDATE sets the
\* environment of every active row of the tenant (404 without an active row)
SwitchAllEnvironments(target_env) ==
    /\ ActiveCount(rows) > 0
    /\ rows' = [NoTable EXCEPT ![target_env] =
                   rows[target_env] \o rows[OtherEnvironment(target_env)]]
    /\ adapterCall' = NoCall
    /\ UNCHANGED <<service, preference, pending, notRouter>>

\* a get_adapter call up to its return, or up to the await of the insert.  The
\* call is recorded with what it has read: the preference if no environment is
\* given (line 98), the process variables if no row is found (line 113).
GetAdapter(c, target_environment, environ) ==
    LET call == get_adapter(CredentialManager, service, rows, preference, environ,
                            target_environment)
        read == IF target_environment = "none" THEN preference ELSE "none"
    IN  /\ pending[c] = NotPending
        /\ call.store => RowsInSight < MaxRows
        /\ IF call.store
           THEN /\ pending' = [pending EXCEPT ![c] =
                       [target_environment |-> target_environment,
                        preference |-> read,
                        table |-> rows,
                        environment |-> call.environment,
                        environ |-> environ,
                        env_creds |-> call.env_creds]]
                /\ adapterCall' = NoCall
           ELSE /\ adapterCall' = [target_environment |-> target_environment,
                                   preference |-> read,
                                   table |-> rows,
                                   environment |-> call.environment,
                                   environ |-> IF call.result.outcome =
                                                      "ProviderNotConfiguredException"
                                               THEN environ ELSE NoCreds,
                                   stored |-> "none",
                                   after |-> rows,
                                   result |-> call.result]
                /\ UNCHANGED pending
        /\ UNCHANGED <<service, rows, preference, notRouter>>

\* the rest of a get_adapter call that found no row: the insert and the return
AutoProvision(c, storeOk) ==
    LET call == auto_provision(CredentialManager, service, rows, pending[c].environment,
                               pending[c].env_creds, storeOk)
    IN  /\ pending[c] # NotPending
        /\ rows' = call.table
        /\ pending' = [pending EXCEPT ![c] = NotPending]
        /\ adapterCall' = [target_environment |-> pending[c].target_environment,
                           preference |-> pending[c].preference,
                           table |-> pending[c].table,
                           environment |-> pending[c].environment,
                           environ |-> pending[c].environ,
                           stored |-> IF storeOk THEN "stored" ELSE "failed",
                           after |-> call.table,
                           result |-> call.result]
        /\ UNCHANGED <<service, preference, notRouter>>

RouterNext ==
    \/ \E e \in Environments : StoreCredentials(e)
    \/ \E e \in Environments : UpdateServiceCredentials(e)
    \/ DeleteServiceCredentials
    \/ DeleteAllServices
    \/ \E e \in Environments : SwitchEnvironment(e)
    \/ \E e \in Environments : SwitchAllEnvironments(e)
    \/ \E c \in Callers, t \in Environments \cup {"none"}, environ \in Environs :
           GetAdapter(c, t, environ)
    \/ \E c \in Callers, storeOk \in BOOLEAN : AutoProvision(c, storeOk)

\* ======================================================================
\* Webhook verifier: backend/app/routes/webhooks.py and
\* backend/app/services/webhook_verifier.py
\* The deliveries of one provider's endpoint for the tenant whose rows are followed
\* and for a user without rows.  The verifier's CredentialManager is the one
\* built in WebhookVerifier.__init__; it is never rotated.
\* ======================================================================

\* ---- bounds ----
MaxEvents == 2

HTTP_UNAUTHORIZED == 401
HTTP_NOT_FOUND == 404

\* the user the rows belong to, and another one
Tenant == 1
Stranger == 2
\* a payload that carries no user
NoUser == 0

RAZORPAY_WEBHOOK_SECRET == 8

\* `if time_diff > 300`
FRESHNESS_SECONDS == 300
\* datetime.now(), and the transmission times a delivery may carry: 301 and 300
\* seconds old, 301 seconds ahead
Now == 1000
TransmissionSeconds == {Now - FRESHNESS_SECONDS - 1, Now - FRESHNESS_SECONDS,
                        Now + FRESHNESS_SECONDS + 1}

\* a header that is not sent, and one that is
Absent == <<>>
Sent(value) == <<value>>

\* raw request bodies: text that is not JSON, and events with and without the
\* embedded user (notes.onerouter_user_id, resource.custom_id)
RawBodies == {[json |-> FALSE, user_id |-> NoUser]}
                 \cup {[json |-> TRUE, user_id |-> u] : u \in {NoUser, Tenant, Stranger}}

\* hmac.new(key, msg, hashlib.sha256).hexdigest(): equal digests come from equal
\* keys and messages only
HMAC_SHA256(key, msg) == [key |-> key, msg |-> msg]

\* X-Razorpay-Signature as a sender may set it
Signatures == {Absent} \cup {Sent(HMAC_SHA256(k, b)) : k \in {1, 2}, b \in RawBodies}

\* paypal-transmission-time: text that fromisoformat parses to an instant, or not
TransmissionTimes == {[iso |-> FALSE, seconds |-> 0]}
                         \cup {[iso |-> TRUE, seconds |-> s] : s \in TransmissionSeconds}
TransmissionIds == {"id1", "id2"}
\* paypal-transmission-sig: a signature, or text that is also a transmission id
TransmissionSigs == {"sig", "id1"}
HeaderNames == {"id", "time", "cert", "algo", "sig"}

\* the PayPal signature headers of a delivery, with those of `missing` not sent
PaypalHeaders(missing, id, time, sig) ==
    [id |-> IF "id" \in missing THEN Absent ELSE Sent(id),
     time |-> IF "time" \in missing THEN Absent ELSE Sent(time),
     cert |-> IF "cert" \in missing THEN Absent ELSE Sent("cert"),
     algo |-> IF "algo" \in missing THEN Absent ELSE Sent("algo"),
     sig |-> IF "sig" \in missing THEN Absent ELSE Sent(sig)]

\* the headers of a Razorpay delivery
RazorpayHeaders(signature) ==
    [id |-> Absent, time |-> Absent, cert |-> Absent, algo |-> Absent, sig |-> signature]

\* what a tenant stores for a provider with an endpoint: razorpay credentials
\* without a webhook secret, with one, with an empty one; paypal credentials
WebhookCreds(service_name) ==
    IF service_name = "razorpay"
    THEN {TestCreds, TestCreds @@ (RAZORPAY_WEBHOOK_SECRET :> 1),
          TestCreds @@ (RAZORPAY_WEBHOOK_SECRET :> EMPTY)}
    ELSE {(PAYPAL_CLIENT_ID :> 1) @@ (PAYPAL_CLIENT_SECRET :> 1)}

\* features_config with and without paypal_webhook_id, with and without webhook_url
WebhookFeatures(service_name) ==
    IF service_name = "paypal"
    THEN {NoFeatures, {"paypal_webhook_id"}, {"paypal_webhook_id", "webhook_url"}}
    ELSE {NoFeatures, {"webhook_url"}}

\* the active rows of a user and the provider, of any environment
\* (the queries of the endpoints and of get_user_credentials)
rows_of_user(table, user_id) ==
    IF user_id = Tenant THEN ActiveRows(table, "test") \o ActiveRows(table, "live") ELSE <<>>

\* result.scalar_one_or_none() of a query that has selected `found`
one_or_none(found) ==
    IF Len(found) = 0 THEN Ok(<<>>)
    ELSE IF Len(found) = 1 THEN Ok(<<found[1]>>)
    ELSE Raise("MultipleResultsFound", "")

\* WebhookVerifier.get_user_credentials: None (NoCreds) without a row and on any exception
get_user_credentials(m, table, user_id) ==
    LET credential == one_or_none(rows_of_user(table, user_id))
        credentials == decrypt_credentials(m, credential.value[1].encrypted_credential)
    IN  IF ~credential.ok THEN NoCreds
        ELSE IF credential.value = <<>> THEN NoCreds
        ELSE IF credentials.ok THEN credentials.value
        ELSE NoCreds

\* creds.get(name), None being the empty string here
creds_get(creds, name) == IF name \in DOMAIN creds THEN creds[name] ELSE EMPTY

\* a comparison that lets every signature pass
verify_razorpay_signature_any(body, signature, webhook_secret) == TRUE

\* WebhookVerifier.verify_razorpay_signature
verify_razorpay_signature(body, signature, webhook_secret) ==
    HMAC_SHA256(webhook_secret, body) = signature

\* the rows of webhook_events a delivery adds
WebhookEvent(service_name, signature) ==
    [service_name |-> service_name, signature |-> signature]

\* an endpoint that adds the row of a delivery twice
log_event_twice(log, service_name, signature) ==
    Append(Append(log, WebhookEvent(service_name, signature)),
           WebhookEvent(service_name, signature))

\* db.add(webhook_event); await db.commit(): webhook_events with the delivery's row
log_event(log, service_name, signature) ==
    Append(log, WebhookEvent(service_name, signature))

\* the tasks background_tasks.add_task has scheduled when the endpoint returns:
\* forward_webhook_to_developer, if the credential's features_config has a webhook_url
forward_tasks(features_config, service_name, signature) ==
    IF "webhook_url" \in features_config
    THEN <<[service_name |-> service_name, original_signature |-> signature]>>
    ELSE <<>>

\* what an endpoint answers, the steps it went through, webhook_events afterwards,
\* what it has sent to the provider's verification API and the forwarding tasks
\* it has scheduled (nothing, unless set)
Respond(status_code, detail, steps, log) ==
    [status_code |-> status_code, detail |-> detail, steps |-> steps, events |-> log,
     sent |-> <<>>, forwarded |-> <<>>]

\* razorpay_webhook from the credential query on (lines 109-173)
razorpay_verify(m, table, log, body, signature) ==
    LET credential == one_or_none(rows_of_user(table, body.user_id))
        creds == get_user_credentials(m, table, body.user_id)
        webhook_secret == creds_get(creds, RAZORPAY_WEBHOOK_SECRET)
    IN  IF ~credential.ok
        THEN Respond(HTTP_ERROR, "Internal Server Error", <<"credential_query">>, log)
        ELSE IF credential.value = <<>>
        THEN Respond(HTTP_BAD_REQUEST, "Invalid webhook request", <<"credential_query">>, log)
        ELSE IF creds = NoCreds
        THEN Respond(HTTP_BAD_REQUEST, "Invalid webhook request",
                     <<"credential_query", "decrypt">>, log)
        ELSE IF webhook_secret = EMPTY
        THEN Respond(HTTP_BAD_REQUEST, "Invalid webhook request",
                     <<"credential_query", "decrypt">>, log)
        ELSE IF ~verify_razorpay_signature(body, signature[1], webhook_secret)
        THEN Respond(HTTP_BAD_REQUEST, "Invalid webhook request",
                     <<"credential_query", "decrypt", "verify">>, log)
        ELSE [Respond(HTTP_OK, "received", <<"credential_query", "decrypt", "verify">>,
                      log_event(log, "razorpay", signature[1]))
                 EXCEPT !.forwarded = forward_tasks(credential.value[1].features_config,
                                                    "razorpay", signature[1])]

\* an endpoint that goes to the credentials before it looks for the user
razorpay_webhook_credentials_first(m, table, log, body, signature) ==
    IF signature = Absent
    THEN Respond(HTTP_BAD_REQUEST, "Missing X-Razorpay-Signature header", <<>>, log)
    ELSE IF ~body.json
    THEN Respond(HTTP_BAD_REQUEST, "Invalid JSON payload", <<>>, log)
    ELSE razorpay_verify(m, table, log, body, signature)

\* razorpay_webhook
razorpay_webhook(m, table, log, body, signature) ==
    IF signature = Absent
    THEN Respond(HTTP_BAD_REQUEST, "Missing X-Razorpay-Signature header", <<>>, log)
    ELSE IF ~body.json
    THEN Respond(HTTP_BAD_REQUEST, "Invalid JSON payload", <<>>, log)
    ELSE IF body.user_id = NoUser
    THEN Respond(HTTP_BAD_REQUEST,
                 "Cannot identify user. Add 'onerouter_user_id' in notes when creating orders.",
                 <<>>, log)
    ELSE razorpay_verify(m, table, log, body, signature)

\* all([transmission_id, transmission_time, cert_url, transmission_sig])
headers_present(headers) ==
    /\ headers.id # Absent
    /\ headers.time # Absent
    /\ headers.cert # Absent
    /\ headers.sig # Absent

\* a freshness window that lets every instant pass
timestamp_fresh_any(transmission_time) == transmission_time.iso

\* _check_paypal_replay_protection, lines 191-202: the timestamp parses and is
\* within 5 minutes of now
timestamp_fresh(transmission_time) ==
    /\ transmission_time.iso
    /\ LET time_diff == IF Now >= transmission_time.seconds
                        THEN Now - transmission_time.seconds
                        ELSE transmission_time.seconds - Now
       IN  ~(time_diff > FRESHNESS_SECONDS)

\* _check_paypal_replay_protection: the answer and the steps gone through
check_paypal_replay_protection(log, transmission_id, transmission_time) ==
    LET existing_event == one_or_none(SelectSeq(log,
            LAMBDA ev : ev.service_name = "paypal" /\ ev.signature = transmission_id))
    IN  IF ~existing_event.ok THEN [pass |-> FALSE, steps |-> <<"replay_query">>]
        ELSE IF existing_event.value # <<>> THEN [pass |-> FALSE, steps |-> <<"replay_query">>]
        ELSE [pass |-> timestamp_fresh(transmission_time),
              steps |-> <<"replay_query", "timestamp">>]

\* `header or ""`
or_empty(header) == IF header = Absent THEN "" ELSE header[1]

\* the arguments of adapter.verify_webhook_signature (lines 97-105), but for
\* webhook_id, which is not part of the delivery
verify_webhook_signature_args(headers, body) ==
    [transmission_id |-> or_empty(headers.id),
     transmission_time |-> or_empty(headers.time),
     transmission_sig |-> or_empty(headers.sig),
     auth_algo |-> or_empty(headers.algo),
     cert_url |-> or_empty(headers.cert),
     webhook_event |-> body]

\* a verifier that asks PayPal before it has looked for a replay
verify_paypal_signature_api_first(log, headers, body, api) ==
    IF ~headers_present(headers) THEN [pass |-> FALSE, steps |-> <<>>, call |-> <<>>]
    ELSE [pass |-> api = "SUCCESS"
                     /\ check_paypal_replay_protection(log, headers.id[1],
                                                        headers.time[1]).pass,
          steps |-> <<"provider_api", "replay_query">>,
          call |-> <<verify_webhook_signature_args(headers, body)>>]

\* WebhookVerifier.verify_paypal_signature; api is the verification_status that
\* PayPal's verify-webhook-signature call reports, call is what the adapter is given
verify_paypal_signature(log, headers, body, api) ==
    LET replay == check_paypal_replay_protection(log, headers.id[1], headers.time[1])
    IN  IF ~headers_present(headers) THEN [pass |-> FALSE, steps |-> <<>>, call |-> <<>>]
        ELSE IF ~replay.pass THEN [pass |-> FALSE, steps |-> replay.steps, call |-> <<>>]
        ELSE [pass |-> api = "SUCCESS", steps |-> replay.steps \o <<"provider_api">>,
              call |-> <<verify_webhook_signature_args(headers, body)>>]

\* paypal_webhook from the credential query on (lines 217-284)
paypal_verify(m, table, log, headers, body, api) ==
    LET credential == one_or_none(rows_of_user(table, body.user_id))
        creds == get_user_credentials(m, table, body.user_id)
        verified == verify_paypal_signature(log, headers, body, api)
    IN  IF ~credential.ok
        THEN Respond(HTTP_ERROR, "Internal Server Error", <<"credential_query">>, log)
        ELSE IF credential.value = <<>>
        THEN Respond(HTTP_NOT_FOUND, "User credentials not found", <<"credential_query">>, log)
        ELSE IF creds = NoCreds
        THEN Respond(HTTP_NOT_FOUND, "User credentials not found",
                     <<"credential_query", "decrypt">>, log)
        ELSE IF "paypal_webhook_id" \notin credential.value[1].features_config
        THEN Respond(HTTP_BAD_REQUEST, "PayPal webhook ID not configured",
                     <<"credential_query", "decrypt">>, log)
        ELSE IF ~verified.pass
        THEN [Respond(HTTP_UNAUTHORIZED, "Webhook signature verification failed",
                      <<"credential_query", "decrypt">> \o verified.steps, log)
                 EXCEPT !.sent = verified.call]
        ELSE [Respond(HTTP_OK, "received",
                      <<"credential_query", "decrypt">> \o verified.steps,
                      log_event(log, "paypal", headers.sig[1]))
                 EXCEPT !.sent = verified.call,
                        !.forwarded = forward_tasks(credential.value[1].features_config,
                                                    "paypal", or_empty(headers.sig))]

\* paypal_webhook
paypal_webhook(m, table, log, headers, body, api) ==
    IF ~headers_present(headers)
    THEN Respond(HTTP_BAD_REQUEST, "Missing PayPal webhook headers", <<>>, log)
    ELSE IF ~body.json
    THEN Respond(HTTP_BAD_REQUEST, "Invalid JSON payload", <<>>, log)
    ELSE IF body.user_id = NoUser
    THEN Respond(HTTP_BAD_REQUEST,
                 "Cannot identify user. Add 'custom_id' when creating PayPal orders.",
                 <<>>, log)
    ELSE paypal_verify(m, table, log, headers, body, api)

NoDelivery == [endpoint |-> "none", headers |-> RazorpayHeaders(Absent),
               body |-> [json |-> FALSE, user_id |-> NoUser], api |-> "none",
               table |-> NoTable, log |-> <<>>, accepted |-> {},
               response |-> Respond(0, "", <<>>, <<>>)]

WebhookInit ==
    /\ events = <<>>
    /\ acceptedIds = {}
    /\ webhookCall = NoDelivery

\* onboarding stores credentials for the endpoint's provider
Onboard(environment, credentials, features) ==
    /\ webhookCall = NoDelivery
    /\ credentials \in WebhookCreds(service)
    /\ features \in WebhookFeatures(service)
    /\ ActiveCount(rows) < MaxRows
    /\ rows' = store_service_credentials(CredentialManager, rows, credentials, features,
                                         environment)
    /\ UNCHANGED <<events, acceptedIds, webhookCall, notWebhook>>

\* delete_all_services: every active row of the tenant is deactivated
Disconnect ==
    /\ webhookCall = NoDelivery
    /\ ActiveCount(rows) > 0
    /\ rows' = NoTable
    /\ UNCHANGED <<events, acceptedIds, webhookCall, notWebhook>>

\* a delivery to POST /webhooks/razorpay, from the request to the response
RazorpayWebhook(body, signature) ==
    LET response == razorpay_webhook(CredentialManager, rows, events, body, signature)
    IN  /\ service = "razorpay"
        /\ webhookCall = NoDelivery
        /\ Len(response.events) <= MaxEvents
        /\ events' = response.events
        /\ webhookCall' = [endpoint |-> "razorpay", headers |-> RazorpayHeaders(signature),
                           body |-> body, api |-> "none", table |-> rows, log |-> events,
                           accepted |-> acceptedIds, response |-> response]
        /\ UNCHANGED <<acceptedIds, rows, notWebhook>>

\* a delivery to POST /webhooks/paypal, from the request to the response; the
\* verification status is recorded if PayPal has been asked for it
PaypalWebhook(headers, body, api) ==
    LET response == paypal_webhook(CredentialManager, rows, events, headers, body, api)
    IN  /\ service = "paypal"
        /\ webhookCall = NoDelivery
        /\ Len(response.events) <= MaxEvents
        /\ events' = response.events
        /\ acceptedIds' = IF response.status_code = HTTP_OK
                          THEN acceptedIds \cup {headers.id[1]} ELSE acceptedIds
        /\ webhookCall' = [endpoint |-> "paypal", headers |-> headers,
                           body |-> body,
                           api |-> IF \E i \in 1..Len(response.steps) :
                                          response.steps[i] = "provider_api"
                                   THEN api ELSE "none",
                           table |-> rows, log |-> events,
                           accepted |-> acceptedIds, response |-> response]
        /\ UNCHANGED <<rows, notWebhook>>

\* the response has gone out; the endpoint takes the next delivery
WebhookReturn ==
    /\ webhookCall # NoDelivery
    /\ webhookCall' = NoDelivery
    /\ UNCHANGED <<events, acceptedIds, rows, notWebhook>>

WebhookNext ==
    \/ \E e \in Environments,
          c \in WebhookCreds("razorpay") \cup WebhookCreds("paypal"),
          f \in WebhookFeatures("razorpay") \cup WebhookFeatures("paypal") : Onboard(e, c, f)
    \/ Disconnect
    \/ \E b \in RawBodies, s \in Signatures : RazorpayWebhook(b, s)
    \/ \E missing \in {{}} \cup {{h} : h \in HeaderNames}, id \in TransmissionIds,
          time \in TransmissionTimes, sig \in TransmissionSigs,
          b \in RawBodies, api \in {"SUCCESS", "FAILURE"} :
           PaypalWebhook(PaypalHeaders(missing, id, time, sig), b, api)
    \/ WebhookReturn

\* ======================================================================
\* Rate limiter: backend/app/cache.py, CacheService.check_rate_limit
\* The calls for one key ratelimit:<api_key_id>:minute.  A call reads the
\* server time, then runs the script; Redis runs a script without
\* interleaving, the two round trips of a call are separate.
\* ======================================================================

\* ---- bounds ----
\* concurrent calls, the largest limit, seconds followed after the first window,
\* allowed calls followed
NumCheckers == 2
MaxLimit == 2
MaxSlack == 1
MaxAllowed == 4

\* `local window = 60`
WINDOW_SECONDS == 60

Checkers == 1..NumCheckers
Limits == 1..MaxLimit
\* values math.random(100000) may return to two calls: equal or different
Randoms == {1, 2}
\* the instants of the server clock that are followed: the first seconds, the
\* last second of the window that starts at 0, and the seconds after it
Times == {0, 1, WINDOW_SECONDS - 1} \cup {WINDOW_SECONDS + s : s \in 0..MaxSlack}

\* now .. ':' .. tostring(math.random(100000)), with its score
Member(now, random) == [score |-> now, random |-> random]

\* redis.call('ZREMRANGEBYSCORE', key, 0, now - window): both ends belong to the range
ZREMRANGEBYSCORE(set, min, max) == {m \in set : ~(min <= m.score /\ m.score <= max)}

\* redis.call('ZADD', key, now, member): a member that exists is not added again
ZADD(set, score, member) == {m \in set : m.random # member.random \/ m.score # member.score}
                                \cup {member}

\* _RATE_LIMIT_LUA_SCRIPT: the sorted set and its expiry afterwards, and the reply
RATE_LIMIT_LUA_SCRIPT(set, expire_at, time, limit, now, random) ==
    LET kept == ZREMRANGEBYSCORE(set, 0, now - WINDOW_SECONDS)
        count == Cardinality(kept)
    IN  IF count < limit
        THEN [zset |-> ZADD(kept, now, Member(now, random)),
              expire_at |-> time + WINDOW_SECONDS,
              reply |-> <<1, limit - count - 1, now + WINDOW_SECONDS>>]
        ELSE [zset |-> kept, expire_at |-> expire_at,
              reply |-> <<0, 0, now + WINDOW_SECONDS>>]

\* lines 176-189: what check_rate_limit returns for the script's reply, and when
\* redis.eval raises
check_rate_limit_return(ok, reply, limit, now) ==
    IF ok THEN [is_allowed |-> reply[1] # 0, remaining |-> reply[2], reset_at |-> reply[3]]
    ELSE [is_allowed |-> TRUE, remaining |-> limit, reset_at |-> now + WINDOW_SECONDS]

NoCheck == [now |-> 0, failed |-> FALSE,
            result |-> [is_allowed |-> FALSE, remaining |-> 0, reset_at |-> 0]]

LimiterInit ==
    /\ clock = 0
    /\ zset = {}
    /\ expireAt = 0
    /\ checkPc = [c \in Checkers |-> "idle"]
    /\ checkNow = [c \in Checkers |-> 0]
    /\ allowedLog = <<>>
    /\ scriptFailed = FALSE
    /\ lastCheck = NoCheck

\* line 166: now = (await redis.time())[0]
RedisTime(c) ==
    /\ checkPc[c] = "idle"
    /\ Len(allowedLog) < MaxAllowed
    /\ checkPc' = [checkPc EXCEPT ![c] = "timed"]
    /\ checkNow' = [checkNow EXCEPT ![c] = clock]
    /\ lastCheck' = NoCheck
    /\ UNCHANGED <<limit_per_minute, clock, zset, expireAt, allowedLog, scriptFailed, notLimiter>>

\* lines 168-189: redis.eval of the script and the return of check_rate_limit
RedisEval(c, random, ok) ==
    LET after == RATE_LIMIT_LUA_SCRIPT(zset, expireAt, clock, limit_per_minute,
                                       checkNow[c], random)
        result == check_rate_limit_return(ok, after.reply, limit_per_minute, checkNow[c])
    IN  /\ checkPc[c] = "timed"
        /\ checkPc' = [checkPc EXCEPT ![c] = "idle"]
        /\ zset' = IF ok THEN after.zset ELSE zset
        /\ expireAt' = IF ok THEN after.expire_at ELSE expireAt
        /\ scriptFailed' = (scriptFailed \/ ~ok)
        /\ allowedLog' = IF ok /\ result.is_allowed
                         THEN Append(allowedLog, checkNow[c]) ELSE allowedLog
        /\ lastCheck' = [now |-> checkNow[c], failed |-> ~ok, result |-> result]
        /\ UNCHANGED <<limit_per_minute, clock, checkNow, notLimiter>>

\* the server clock advances; a key whose expiry has come is deleted
Tick(time) ==
    /\ time > clock
    /\ clock' = time
    /\ zset' = IF zset # {} /\ clock' >= expireAt THEN {} ELSE zset
    /\ lastCheck' = NoCheck
    /\ UNCHANGED <<limit_per_minute, expireAt, checkPc, checkNow, allowedLog, scriptFailed,
                   notLimiter>>

LimiterNext ==
    \/ \E c \in Checkers : RedisTime(c)
    \/ \E c \in Checkers, random \in Randoms, ok \in BOOLEAN : RedisEval(c, random, ok)
    \/ \E time \in Times : Tick(time)

\* ======================================================================
\* The idempotent endpoints that replay from Redis: create_subscription,
\* generic_proxy, create_payment_link (backend/app/routes/unified_api.py)
\* They take the lock that create_payment_order takes (idempotency:lock:<key>)
\* and keep their responses under idempotent:<user id>:<key> (cache.py).
\* A request is named by the slot it arrives in; a slot serves one request.
\* ======================================================================

Endpoints == {"subscriptions", "proxy", "payment_links"}
\* user["id"]: the id of the user row, a uuid
Users == {1, 2}

NoResponse == 0
NoCachedRequest == [endpoint |-> "none", user_id |-> 0, key |-> 0]

\* a cache key made of the idempotency key alone
idempotent_key_any(user_id, idempotency_key) == <<"idempotent", 0, idempotency_key>>

\* "idempotent:{}:{}".format(user_id, idempotency_key); a uuid holds no colon
idempotent_key(user_id, idempotency_key) == <<"idempotent", user_id, idempotency_key>>

CacheKeys == {idempotent_key(u, k) : u \in Users \cup {0}, k \in Keys}

\* CacheService.get_idempotent_response
get_idempotent_response(store, user_id, idempotency_key) ==
    store[idempotent_key(user_id, idempotency_key)]

\* CacheService.cache_idempotent_response: redis.set without nx replaces the entry
cache_idempotent_response(store, user_id, idempotency_key, response_data) ==
    [store EXCEPT ![idempotent_key(user_id, idempotency_key)] = response_data]

\* a handler whose lock acquisition is inside the try block: the finally runs
after_acquire_in_try(lock_acquired) == IF lock_acquired THEN "locked" ELSE "release"

\* `if not lock_acquired: raise HTTPException(409)` comes before the try block
after_acquire(lock_acquired) == IF lock_acquired THEN "locked" ELSE "done"

\* the status a failed operation is answered with: create_payment_link lets an
\* HTTPException pass (lines 1097-1098), generic_proxy catches it with the rest
failure_status(endpoint, outcome) ==
    IF endpoint = "payment_links" /\ outcome = "http" THEN HTTP_BAD_REQUEST ELSE HTTP_ERROR

CachedInit ==
    /\ cPc = [r \in Requests |-> "idle"]
    /\ cReq = [r \in Requests |-> NoCachedRequest]
    /\ cStatus = [r \in Requests |-> 0]
    /\ cResp = [r \in Requests |-> NoResponse]
    /\ cHolds = [r \in Requests |-> "no"]
    /\ cache = [ck \in CacheKeys |-> NoResponse]

\* the request ends with an answer
CachedAnswer(r, code, response) ==
    /\ cStatus' = [cStatus EXCEPT ![r] = code]
    /\ cResp' = [cResp EXCEPT ![r] = response]

\* the request arrives and looks for a cached response (lines 911-914, 1048-1051):
\* an entry is returned as it is, an error of Redis ends the request.
\* create_subscription reads the name `user`, which it does not define (its
\* parameter is auth_data), at line 655 and ends with a NameError.
Arrive(r, endpoint, user_id, key) ==
    /\ pc[r] = "idle"
    /\ cPc[r] = "idle"
    /\ cReq' = [cReq EXCEPT ![r] = [endpoint |-> endpoint, user_id |-> user_id, key |-> key]]
    /\ \E lookupFails \in BOOLEAN :
          LET cached_response == get_idempotent_response(cache, user_id, key) IN
          IF endpoint = "subscriptions" \/ lookupFails
          THEN /\ cPc' = [cPc EXCEPT ![r] = "done"]
               /\ CachedAnswer(r, HTTP_ERROR, NoResponse)
          ELSE IF cached_response # NoResponse
          THEN /\ cPc' = [cPc EXCEPT ![r] = "done"]
               /\ CachedAnswer(r, HTTP_OK, cached_response)
          ELSE /\ cPc' = [cPc EXCEPT ![r] = "acquire"]
               /\ UNCHANGED <<cStatus, cResp>>
    /\ UNCHANGED <<cHolds, cache, lock, notCached>>

\* lines 916-922, 1053-1059: set-if-absent on the lock, 409 when it exists
CachedAcquire(r) ==
    /\ cPc[r] = "acquire"
    /\ LET res == acquire_idempotency_lock(lock, cReq[r].key) IN
          /\ lock' = res.locks
          /\ cPc' = [cPc EXCEPT ![r] = after_acquire(res.acquired)]
          /\ IF res.acquired
             THEN /\ cHolds' = [cHolds EXCEPT ![r] = "held"]
                  /\ UNCHANGED <<cStatus, cResp>>
             ELSE /\ CachedAnswer(r, HTTP_CONFLICT, NoResponse)
                  /\ UNCHANGED cHolds
    /\ UNCHANGED <<cReq, cache, notCached>>

\* lines 924-953, 1061-1090: the log entry, the adapter, the provider call, the
\* commit; the provider's result is named after the request
Operate(r) ==
    /\ cPc[r] = "locked"
    /\ \E outcome \in {"ok", "http", "error"} :
          IF outcome = "ok"
          THEN /\ cPc' = [cPc EXCEPT ![r] = "cache"]
               /\ cResp' = [cResp EXCEPT ![r] = r]
               /\ UNCHANGED cStatus
          ELSE /\ cPc' = [cPc EXCEPT ![r] = "release"]
               /\ CachedAnswer(r, failure_status(cReq[r].endpoint, outcome), NoResponse)
    /\ UNCHANGED <<cReq, cHolds, cache, lock, notCached>>

\* lines 955-958, 1092-1095: cache the result and return it; an error of Redis
\* is caught with the rest and answered 500
CacheResponse(r) ==
    /\ cPc[r] = "cache"
    /\ \E ok \in BOOLEAN :
          IF ok
          THEN /\ cache' = cache_idempotent_response(cache, cReq[r].user_id, cReq[r].key,
                                                    cResp[r])
               /\ CachedAnswer(r, HTTP_OK, cResp[r])
          ELSE /\ CachedAnswer(r, HTTP_ERROR, NoResponse)
               /\ UNCHANGED cache
    /\ cPc' = [cPc EXCEPT ![r] = "release"]
    /\ UNCHANGED <<cReq, cHolds, lock, notCached>>

\* lines 974-976, 1112-1114: finally, delete the lock
CachedRelease(r) ==
    /\ cPc[r] = "release"
    /\ lock' = release_idempotency_lock(lock, cReq[r].key)
    /\ cHolds' = [cHolds EXCEPT ![r] = IF @ = "held" THEN "released" ELSE "released unheld"]
    /\ cPc' = [cPc EXCEPT ![r] = "done"]
    /\ UNCHANGED <<cReq, cStatus, cResp, cache, notCached>>

\* cache.py line 289, ex=ttl: Redis drops the entry after 24 hours
CacheExpire(ck) ==
    /\ cache[ck] # NoResponse
    /\ cache' = [cache EXCEPT ![ck] = NoResponse]
    /\ UNCHANGED <<cPc, cReq, cStatus, cResp, cHolds, lock, notCached>>

CachedNext ==
    \/ \E r \in Requests, e \in Endpoints, u \in Users, k \in Keys : Arrive(r, e, u, k)
    \/ \E r \in Requests : CachedAcquire(r)
    \/ \E r \in Requests : Operate(r)
    \/ \E r \in Requests : CacheResponse(r)
    \/ \E r \in Requests : CachedRelease(r)
    \/ \E ck \in CacheKeys : CacheExpire(ck)

\* the requests to the four idempotent endpoints
EndpointNext == Next \/ CachedNext

\* ---- specifications ----
\* the state after construction: no request yet, a new CredentialManager, no
\* credential rows; the rows kept are those of razorpay
Start ==
    /\ Init /\ VaultInit /\ RouterInit /\ WebhookInit /\ LimiterInit /\ CachedInit
    /\ service = "razorpay"
    /\ limit_per_minute = MaxLimit

\* the same with the rows of any one provider: every query of the router filters
\* by provider, so the rows of the other providers never reach a call
RouterStart ==
    /\ Init /\ VaultInit /\ RouterInit /\ WebhookInit /\ LimiterInit /\ CachedInit
    /\ service \in Services
    /\ limit_per_minute = MaxLimit

\* the same with the rows of a provider that has a webhook endpoint
WebhookStart ==
    /\ Init /\ VaultInit /\ RouterInit /\ WebhookInit /\ LimiterInit /\ CachedInit
    /\ service \in {"razorpay", "paypal"}
    /\ limit_per_minute = MaxLimit

\* the same with any limit for the key of the rate limiter
LimiterStart ==
    /\ Init /\ VaultInit /\ RouterInit /\ WebhookInit /\ LimiterInit /\ CachedInit
    /\ service = "razorpay"
    /\ limit_per_minute \in Limits

\* the requests of create_payment_order; the vault is at rest
Spec == Start /\ [][Next]_<<vars, notIdempotency>>

\* Redis expires every key that carries a time to live: an entry that stays in place
\* is eventually removed.  No fairness is assumed of the request handlers.
LiveSpec == Spec /\ \A k \in Keys : WF_vars(ExpireLock(k))

\* calls on one CredentialManager and on the operator endpoints; no payment request runs
VaultSpec == Start /\ [][VaultNext]_<<vars, notIdempotency>>

\* get_adapter calls of one tenant and the writes to its credential rows
RouterSpec == RouterStart /\ [][RouterNext]_<<vars, notIdempotency>>

\* the deliveries to one webhook endpoint and the tenant's onboarding
WebhookSpec == WebhookStart /\ [][WebhookNext]_<<vars, notIdempotency>>

\* the requests to create_payment_order, generic_proxy, create_payment_link and
\* create_subscription
EndpointSpec == Start /\ [][EndpointNext]_<<vars, notIdempotency>>

\* the check_rate_limit calls for one key
LimiterSpec == LimiterStart /\ [][LimiterNext]_<<vars, notIdempotency>>

\* ---- properties of the idempotency controller ----

Terminated(r) == pc[r] \in {"done", "crashed"}

\* between a successful acquire_idempotency_lock and the request's own release
InFlight(r) == holds[r] = "held" /\ ~Terminated(r)

SameCall(r1, r2) == r1 # r2 /\ req[r1] # NoRequest /\ req[r1] = req[r2]

\* C1: at every instant at most one request per idempotency key is in flight
\* (between its successful acquire and its own release), also when the TTL of
\* the lock elapses while the holder is still executing.
C1_MutualExclusion ==
    \A r1, r2 \in Requests :
        (r1 # r2 /\ InFlight(r1) /\ InFlight(r2)) => req[r1].key # req[r2].key

C9_GuaranteedRelease ==
    \A r \in Requests :
        (Terminated(r) /\ holds[r] # "no") => holds[r] = "released"

\* C10: a record is written only by a request that is past its successful
\* provider call and the commit of its transaction log, and holds the order
\* of that call; a request whose provider call failed or was never made has
\* written no record.
C10_RecordAfterSideEffect ==
    /\ [][\A ak \in ApiKeys \X Keys :
            records'[ak] # records[ak] =>
                \E r \in Requests :
                    /\ pc[r] = "store"
                    /\ <<req[r].apiKey, req[r].key>> = ak
                    /\ called[r] /\ r \in orders /\ committed[r]
                    /\ records'[ak].response = resp[r]
                    /\ resp[r] = r]_vars
    /\ [](\A ak \in ApiKeys \X Keys :
            records[ak] # NoRecord =>
                /\ records[ak].response \in orders
                /\ called[records[ak].response]
                /\ committed[records[ak].response])

\* a record has been written, and a request whose provider call failed has
\* terminated
C10_Witness ==
    /\ \E ak \in ApiKeys \X Keys : records[ak] # NoRecord
    /\ \E r \in Requests : pc[r] = "done" /\ called[r] /\ r \notin orders

\* C11: self-healing lock.  When the request that acquired the lock of key k has
\* crashed before its release and the lock entry is still there, the entry
\* eventually disappears, so the key is not blocked forever and a later attempt
\* on k finds the lock free.
C11_SelfHealing ==
    \A r \in Requests, k \in Keys :
        (pc[r] = "crashed" /\ req[r].key = k /\ lock[k]) ~> ~lock[k]

\* A request crashed while holding the lock of k, and a later request with the
\* same key has acquired the lock.
C11_Witness ==
    \E r1, r2 \in Requests :
        /\ r1 # r2
        /\ pc[r1] = "crashed"
        /\ holds[r1] = "held"
        /\ req[r2].key = req[r1].key
        /\ InFlight(r2)

\* ---- properties of the credential vault ----

\* C12: vault round trip.  In every state of a manager reached by rotations (no
\* rotation half done), for every credential map m and every nonce,
\* encrypt_credentials(m) returns a blob and decrypt_credentials of that blob
\* returns m.
C12_RoundTrip ==
    rot.pc # "bumped" =>
        \A credentials \in CredMaps, b \in NonceBytes :
            LET e == encrypt_credentials(mgr, credentials, Nonce(b))
            IN  /\ e.ok
                /\ decrypt_credentials(mgr, e.value) = Ok(credentials)

\* a blob made after a rotation was decrypted unchanged and gave back its map
C12_Witness ==
    /\ lastDecrypt.part = "intact"
    /\ lastDecrypt.version > INITIAL_KEY_VERSION
    /\ lastDecrypt.version = lastDecrypt.current
    /\ DOMAIN lastDecrypt.plain = Fields
    /\ lastDecrypt.result = Ok(lastDecrypt.plain)

\* C13: rotation durability.  A blob made under version N decrypts to its map
\* in every later state, whatever rotations followed, as long as cleanup_old_keys
\* has not deleted N; and every blob returned by encrypt_credentials carries in
\* its header the version that is current at the call.
C13_RotationDurability ==
    /\ []((sealed # NoSealed /\ HeaderVersion(sealed.blob) \notin pruned)
              => decrypt_credentials(mgr, sealed.blob) = Ok(sealed.plain))
    /\ [][sealed' # sealed
              => SubSeq(sealed'.blob, 1, VERSION_BYTES) = to_bytes(mgr.current_key_version)]_vaultVars

\* a blob of version N was decrypted two rotations later
C13_Witness ==
    /\ lastDecrypt.part = "intact"
    /\ lastDecrypt.version + 2 <= lastDecrypt.current
    /\ lastDecrypt.result = Ok(lastDecrypt.plain)
    /\ pruned = {}

\* C14: tamper detection.  decrypt_credentials of a blob that differs from one
\* returned by encrypt_credentials in a byte of the version header, of the nonce
\* or of the ciphertext and tag, or that is cut short, fails with an error; no
\* map is returned.
C14_TamperDetection ==
    lastDecrypt.part \notin {"none", "intact"} => ~lastDecrypt.result.ok

\* the header of a blob was changed to another version of the key table, and
\* the key of that version did not open the blob
C14_Witness ==
    /\ lastDecrypt.part = "header"
    /\ ~lastDecrypt.result.ok
    /\ lastDecrypt.result.error[2] = InvalidTagMessage

\* C15: decrypt error kinds.  The error of decrypt_credentials for a blob whose
\* version is not in the key table differs in kind from its error for a blob
\* of 16 bytes or fewer and from its error for a blob with a bad tag.
C15_DistinctErrorKinds ==
    sealed # NoSealed =>
        LET unknown == [sealed.blob EXCEPT ![VERSION_BYTES] = MaxVersion + 1]
            short == SubSeq(sealed.blob, 1, HEADER_BYTES)
            badtag == [sealed.blob EXCEPT ![Len(sealed.blob)] = Junk]
        IN  /\ ~decrypt_credentials(mgr, unknown).ok
            /\ ~decrypt_credentials(mgr, short).ok
            /\ decrypt_credentials(mgr, unknown).error # decrypt_credentials(mgr, short).error
            /\ (HeaderVersion(sealed.blob) \in DOMAIN mgr.encryption_keys =>
                   decrypt_credentials(mgr, unknown).error[1]
                       # decrypt_credentials(mgr, badtag).error[1])

\* C16: current-key invariant.  Between calls of rotate_encryption_key and
\* cleanup_old_keys the current version is a key of encryption_keys and no
\* version of the table or deleted from it is larger; the current version never
\* decreases, and a version that enters the table is larger than every version
\* that was in it or was deleted from it, so no number is issued twice.
C16_CurrentKey ==
    /\ [](rot.pc # "bumped" =>
              /\ mgr.current_key_version \in DOMAIN mgr.encryption_keys
              /\ \A v \in DOMAIN mgr.encryption_keys \cup pruned : v <= mgr.current_key_version)
    /\ [][/\ mgr'.current_key_version >= mgr.current_key_version
          /\ \A v \in DOMAIN mgr'.encryption_keys \ DOMAIN mgr.encryption_keys :
                 \A w \in DOMAIN mgr.encryption_keys \cup pruned : v > w]_vaultVars

\* after rotations, cleanup_old_keys(0) has deleted every version but the current one
C16_Witness ==
    /\ rot.pc = "idle"
    /\ mgr.current_key_version = MaxVersion
    /\ DOMAIN mgr.encryption_keys = {MaxVersion}
    /\ pruned = 1..(MaxVersion - 1)

\* C17: process-wide key state.  The status report taken after the operator's
\* rotation returned version v names v as the current version and lists v
\* among the available versions.
C17_ProcessWideKeyState ==
    (admin.rotated # 0 /\ admin.status # NoStatus) =>
        /\ admin.status.current_version = admin.rotated
        /\ admin.rotated \in admin.status.available_versions

\* C18: rotation under concurrent use.  At every step of a rotation the current
\* version has a key in encryption_keys, and no encrypt_credentials fails for
\* want of the key of the current version.
C18_NoPartialTable ==
    /\ mgr.current_key_version \in DOMAIN mgr.encryption_keys
    /\ lastEncrypt # "KeyError"

\* ---- properties of the environment router ----
OneActive(table, e) == Len(table[e]) = 1
NoneActive(table, e) == Len(table[e]) = 0
Unique(table) == \A e \in Environments : Len(table[e]) <= 1
Opens(blob) == decrypt_credentials(CredentialManager, blob).value
HasAdapter == service \in {"razorpay", "paypal"}

\* C19: preference-path fallback.  A get_adapter call without an explicit
\* environment targets the stored preference, or test if none is stored; when the
\* tenant has at most one active credential per environment, the adapter (of a
\* provider that has one) is bound
\* to the credential of the target environment if there is one, and otherwise to
\* the credential of the opposite environment if there is one.
C19_PreferenceFallback ==
    (adapterCall # NoCall /\ adapterCall.target_environment = "none") =>
        LET t == adapterCall.environment
            o == OtherEnvironment(adapterCall.environment)
        IN  /\ t = (IF adapterCall.preference = "none" THEN "test" ELSE adapterCall.preference)
            /\ (HasAdapter /\ Unique(adapterCall.table) /\ OneActive(adapterCall.table, t)) =>
                   /\ adapterCall.result.outcome = "adapter"
                   /\ adapterCall.result.bound = t
                   /\ adapterCall.result.credentials = Opens(adapterCall.table[t][1].encrypted_credential)
            /\ (HasAdapter /\ NoneActive(adapterCall.table, t) /\ OneActive(adapterCall.table, o)) =>
                   /\ adapterCall.result.outcome = "adapter"
                   /\ adapterCall.result.bound = o
                   /\ adapterCall.result.credentials = Opens(adapterCall.table[o][1].encrypted_credential)

\* a tenant with a live credential only and no preference got an adapter bound to it
C19_Witness ==
    /\ adapterCall # NoCall
    /\ adapterCall.target_environment = "none"
    /\ adapterCall.preference = "none"
    /\ adapterCall.table = [e \in Environments |->
           IF e = "live" THEN <<ServiceCredential(CredentialManager, LiveCreds, NoFeatures)>>
           ELSE <<>>]
    /\ adapterCall.result.outcome = "adapter"
    /\ adapterCall.result.bound = "live"
    /\ adapterCall.result.credentials = LiveCreds

\* C20: no fallback for an explicit environment.  A get_adapter call with an
\* explicit environment never returns an adapter bound to a credential stored
\* for the other environment, and fails when the requested environment has no
\* active credential.
C20_NoFallbackExplicit ==
    (adapterCall # NoCall /\ adapterCall.target_environment # "none") =>
        /\ adapterCall.result.outcome = "adapter" =>
               adapterCall.result.bound = adapterCall.target_environment
        /\ (NoneActive(adapterCall.table, adapterCall.target_environment)
                /\ ~NoneActive(adapterCall.table, OtherEnvironment(adapterCall.target_environment)))
               => adapterCall.result.outcome # "adapter"
\* ---- auto-provisioning ----
\* the rows of a table that carry the auto_provisioned mark
AutoCount(table) ==
    Len(SelectSeq(table["test"] \o table["live"],
                  LAMBDA r : "auto_provisioned" \in r.features_config))

\* the required variables of the provider's schema are all set and non-empty
SchemaSatisfied(environ) ==
    /\ service \in DOMAIN SERVICE_ENV_PATTERNS
    /\ \A v \in SERVICE_ENV_PATTERNS[service].required : IsSet(environ, v)

\* the required fields and the optional fields that are set, with their values
SchemaFields(environ) ==
    [v \in {w \in SERVICE_ENV_PATTERNS[service].required
                      \cup SERVICE_ENV_PATTERNS[service].optional : IsSet(environ, w)}
        |-> environ[v]]

\* C21: auto-provisioning.  A get_adapter call inserts a row only if the table it
\* has read holds no active row of the tenant and provider in either environment
\* and every required variable of the provider's schema is set and non-empty; the
\* row is active, marked auto_provisioned, stored under the target environment,
\* holds exactly the required fields and the optional fields that are set, and is
\* what the returned adapter is built from.  No other step adds a marked row, and
\* a call that reads no row and does not insert has an unknown provider or a
\* required variable missing.
C21_AutoProvisioning ==
    [][/\ \A c \in Callers :
              (pending[c] # NotPending /\ pending'[c] = NotPending
                   /\ adapterCall'.stored = "stored") =>
                  LET call == pending[c]
                      row == rows'[call.environment][Len(rows'[call.environment])]
                  IN  /\ ActiveCount(call.table) = 0
                      /\ SchemaSatisfied(call.environ)
                      /\ rows' = [rows EXCEPT ![call.environment] = Append(@, row)]
                      /\ row.is_active
                      /\ row.features_config = {"auto_provisioned"}
                      /\ Opens(row.encrypted_credential) = SchemaFields(call.environ)
                      /\ HasAdapter =>
                             /\ adapterCall'.result.outcome = "adapter"
                             /\ adapterCall'.result.bound = call.environment
                             /\ adapterCall'.result.credentials = SchemaFields(call.environ)
       /\ AutoCount(rows') > AutoCount(rows) =>
              \E c \in Callers : pending[c] # NotPending /\ pending'[c] = NotPending
       /\ (adapterCall' # NoCall /\ adapterCall'.stored = "none"
               /\ ActiveCount(adapterCall'.table) = 0) =>
              /\ ~SchemaSatisfied(adapterCall'.environ)
              /\ adapterCall'.result.outcome = "ProviderNotConfiguredException"
      ]_<<vars, notIdempotency>>

\* a paypal call for the live environment has inserted a row from the process
\* variables, the empty optional variable left out, and got its adapter
C21_Witness ==
    /\ service = "paypal"
    /\ adapterCall.stored = "stored"
    /\ adapterCall.target_environment = "live"
    /\ adapterCall.result.outcome = "adapter"
    /\ adapterCall.result.bound = "live"
    /\ DOMAIN adapterCall.result.credentials =
           {PAYPAL_CLIENT_ID, PAYPAL_CLIENT_SECRET, PAYPAL_MODE}
    /\ AutoCount(adapterCall.after) = 1
\* C22: ProviderNotConfigured.  A get_adapter call that reads no active row in
\* either environment and inserts none fails with ProviderNotConfigured; the
\* exception carries the provider, the environment of the call and a remediation
\* payload, and no adapter is built and nothing is decrypted.
C22_ProviderNotConfigured ==
    (adapterCall # NoCall /\ ActiveCount(adapterCall.table) = 0
         /\ adapterCall.stored # "stored") =>
        /\ adapterCall.result.outcome = "ProviderNotConfiguredException"
        /\ adapterCall.result.bound = "none"
        /\ adapterCall.result.credentials = NoCreds
        /\ DOMAIN adapterCall.result.args = {"provider", "environment", "remediation"}
        /\ adapterCall.result.args.provider = service
        /\ adapterCall.result.args.environment = adapterCall.environment
\* C23: credential uniqueness.  Whatever the tenant's endpoints and the router
\* have done, every environment holds at most one active row of the tenant and
\* provider.
C23_CredentialUniqueness ==
    \A e \in Environments : Len(ActiveRows(rows, e)) <= 1
\* ---- CredentialManager.get_credentials ----
\* every row of the table is as store_service_credentials has inserted it for the
\* environment it is under
StoredOnly(table) ==
    \A e \in Environments : \A i \in 1..Len(table[e]) :
        table[e][i] = ServiceCredential(CredentialManager, TenantCredsOf(service, e), NoFeatures)

\* C30: environment isolation of stored credentials.  After store_service_credentials
\* calls only, get_credentials for an environment returns the credentials stored
\* for that environment, and None when nothing is stored for it, whatever the other
\* environment holds.
C30_EnvironmentIsolation ==
    StoredOnly(rows) =>
        \A e \in Environments :
            get_credentials(CredentialManager, rows, e) =
                IF Len(rows[e]) = 0 THEN NoCreds ELSE TenantCredsOf(service, e)
\* ---- webhook deliveries ----
Rejected == webhookCall.response.status_code # HTTP_OK
Went(step) == \E i \in 1..Len(webhookCall.response.steps) : webhookCall.response.steps[i] = step
\* the rows of the delivery's user when it was answered
RowsRead == rows_of_user(webhookCall.table, webhookCall.body.user_id)
\* the timestamp does not parse, or is more than five minutes before now
Stale(transmission_time) ==
    \/ ~transmission_time.iso
    \/ Now - transmission_time.seconds > FRESHNESS_SECONDS

\* C24: webhook replay rejection.  A PayPal delivery whose transmission id is that
\* of a delivery answered with 200 before is rejected; a delivery with complete
\* headers, a fresh timestamp and a configured tenant whose transmission id has
\* not been accepted before is passed to PayPal and accepted on its success.
C24_ReplayRejection ==
    webhookCall.endpoint = "paypal" =>
        /\ (webhookCall.headers.id # Absent
                /\ webhookCall.headers.id[1] \in webhookCall.accepted) => Rejected
        /\ (/\ \A h \in HeaderNames : webhookCall.headers[h] # Absent
            /\ ~Stale(webhookCall.headers.time[1])
            /\ webhookCall.headers.time[1].seconds <= Now
            /\ webhookCall.headers.id[1] \notin webhookCall.accepted
            /\ webhookCall.body.json
            /\ Len(RowsRead) = 1
            /\ "paypal_webhook_id" \in RowsRead[1].features_config) =>
               /\ Went("provider_api")
               /\ webhookCall.api = "SUCCESS" => ~Rejected

\* C25: webhook freshness.  A PayPal delivery whose transmission time does not
\* parse or lies more than 300 seconds before the time of verification is
\* rejected, and PayPal's verification API is not called for it.
C25_Freshness ==
    (webhookCall.endpoint = "paypal" /\ webhookCall.headers.time # Absent
         /\ Stale(webhookCall.headers.time[1])) =>
        /\ Rejected
        /\ ~Went("provider_api")

\* a delivery of a configured tenant, 301 seconds old, came to the timestamp check
\* and was answered 401
C25_Witness ==
    /\ webhookCall.endpoint = "paypal"
    /\ webhookCall.headers.time = Sent([iso |-> TRUE, seconds |-> Now - FRESHNESS_SECONDS - 1])
    /\ Went("timestamp")
    /\ webhookCall.response.status_code = HTTP_UNAUTHORIZED

\* C26: required signature headers.  A PayPal delivery that lacks any one of the
\* five signature headers is rejected, and neither the replay lookup nor PayPal's
\* verification API is reached.
C26_RequiredHeaders ==
    (webhookCall.endpoint = "paypal"
         /\ \E h \in HeaderNames : webhookCall.headers[h] = Absent) =>
        /\ Rejected
        /\ ~Went("replay_query")
        /\ ~Went("provider_api")

\* C27: tenant resolution first.  A delivery whose payload carries no user is
\* rejected before any credential query, decryption or verification.
C27_TenantResolutionFirst ==
    (webhookCall.endpoint # "none" /\ webhookCall.body.json
         /\ webhookCall.body.user_id = NoUser) =>
        /\ Rejected
        /\ webhookCall.response.steps = <<>>

\* a Razorpay delivery without a user, signed with the secret of the tenant that
\* has a credential, was answered 400 with nothing read
C27_Witness ==
    /\ webhookCall.endpoint = "razorpay"
    /\ webhookCall.body = [json |-> TRUE, user_id |-> NoUser]
    /\ webhookCall.headers.sig = Sent(HMAC_SHA256(1, webhookCall.body))
    /\ ActiveCount(webhookCall.table) = 1
    /\ webhookCall.response.status_code = HTTP_BAD_REQUEST
    /\ webhookCall.response.steps = <<>>

\* C28: uniform verification failure.  Every delivery that an endpoint rejects
\* after it has resolved the user gets the response that the endpoint gives to a
\* wrong signature.
C28_UniformFailure ==
    (webhookCall.endpoint # "none" /\ Rejected /\ Went("credential_query")
         /\ webhookCall.response.status_code # HTTP_ERROR) =>
        /\ webhookCall.endpoint = "razorpay" =>
               /\ webhookCall.response.status_code = HTTP_BAD_REQUEST
               /\ webhookCall.response.detail = "Invalid webhook request"
        /\ webhookCall.endpoint = "paypal" =>
               /\ webhookCall.response.status_code = HTTP_UNAUTHORIZED
               /\ webhookCall.response.detail = "Webhook signature verification failed"

\* the tenant's credential holds a webhook secret and the signature header is
\* the HMAC of the raw body under it
SignedBySecret ==
    /\ webhookCall.headers.sig # Absent
    /\ Len(RowsRead) = 1
    /\ LET creds == Opens(RowsRead[1].encrypted_credential)
       IN  /\ RAZORPAY_WEBHOOK_SECRET \in DOMAIN creds
           /\ creds[RAZORPAY_WEBHOOK_SECRET] # EMPTY
           /\ webhookCall.headers.sig[1] =
                  HMAC_SHA256(creds[RAZORPAY_WEBHOOK_SECRET], webhookCall.body)

StepAt(step) ==
    LET steps == webhookCall.response.steps
    IN  IF Went(step) THEN CHOOSE i \in 1..Len(steps) : steps[i] = step ELSE 0

\* C31: verification order for PayPal.  PayPal's verification API is called only
\* for a delivery whose signature headers passed the presence check and whose
\* replay lookup and timestamp check came before the call and passed; the call
\* is given every header the delivery carried, and the body, as received.
C31_VerificationOrder ==
    (webhookCall.endpoint = "paypal" /\ Went("provider_api")) =>
        /\ headers_present(webhookCall.headers)
        /\ 0 < StepAt("replay_query")
        /\ StepAt("replay_query") < StepAt("timestamp")
        /\ StepAt("timestamp") < StepAt("provider_api")
        /\ check_paypal_replay_protection(webhookCall.log, webhookCall.headers.id[1],
                                          webhookCall.headers.time[1]).pass
        /\ ~Stale(webhookCall.headers.time[1])
        /\ Len(webhookCall.response.sent) = 1
        /\ LET args == webhookCall.response.sent[1]
           IN  /\ args.transmission_id = webhookCall.headers.id[1]
               /\ args.transmission_time = webhookCall.headers.time[1]
               /\ args.transmission_sig = webhookCall.headers.sig[1]
               /\ args.cert_url = webhookCall.headers.cert[1]
               /\ webhookCall.headers.algo # Absent =>
                      args.auth_algo = webhookCall.headers.algo[1]
               /\ args.webhook_event = webhookCall.body

\* PayPal was asked about a delivery with all five headers, 300 seconds old, and
\* reported a failure: the delivery was answered 401
C31_Witness ==
    /\ webhookCall.endpoint = "paypal"
    /\ \A h \in HeaderNames : webhookCall.headers[h] # Absent
    /\ webhookCall.headers.time[1].seconds = Now - FRESHNESS_SECONDS
    /\ Went("provider_api")
    /\ webhookCall.api = "FAILURE"
    /\ webhookCall.response.status_code = HTTP_UNAUTHORIZED
    /\ webhookCall.response.sent # <<>>

\* ---- completion of the idempotent endpoints ----

Highest(S, n) == {v \in S : Cardinality({w \in S : w > v}) < n}

\* C33: key pruning.  A call cleanup_old_keys(k) with a retention count k >= 1 on
\* a manager between rotations that holds more than k versions leaves exactly
\* the k highest versions, the current one among them, and returns the number
\* of versions it removed; with at most k versions it leaves the table as it
\* was and returns 0.  Every decryption of an unchanged ciphertext fails if its
\* version has been removed and returns the credentials if it has not.
C33_KeyPruning ==
    /\ (lastCleanup # NoCleanup /\ lastCleanup.keep_versions >= 1 /\ rot.pc # "bumped") =>
           LET before == lastCleanup.before.available_versions
               after == DOMAIN mgr.encryption_keys
               k == lastCleanup.keep_versions
           IN  /\ lastCleanup.removed_count = Cardinality(before \ after)
               /\ after \subseteq before
               /\ IF Cardinality(before) > k
                  THEN /\ after = Highest(before, k)
                       /\ Cardinality(after) = k
                       /\ mgr.current_key_version \in after
                  ELSE /\ after = before
                       /\ lastCleanup.removed_count = 0
    /\ lastDecrypt.part = "intact" =>
           IF lastDecrypt.version \in pruned
           THEN ~lastDecrypt.result.ok
           ELSE lastDecrypt.result = Ok(lastDecrypt.plain)

\* cleanup_old_keys(1) on three versions removed two of them; a ciphertext of a
\* removed version did not decrypt
C33_Witness ==
    /\ Cardinality(pruned) = 2
    /\ Cardinality(DOMAIN mgr.encryption_keys) = 1
    /\ lastDecrypt.part = "intact"
    /\ lastDecrypt.version \in pruned
    /\ ~lastDecrypt.result.ok

\* ---- rate limiter ----

\* the calls the script has allowed with a time in the `seconds` seconds from `from`
AllowedIn(from, seconds) ==
    Cardinality({i \in 1..Len(allowedLog) :
                     from <= allowedLog[i] /\ allowedLog[i] < from + seconds})

\* C34: rate limit bound.  As long as no script call has failed, the calls
\* answered is_allowed = True with a time in any 60 consecutive seconds are at
\* most limit_per_minute; a call whose script call fails is allowed.
C34_RateLimitBound ==
    /\ ~scriptFailed =>
           \A from \in 0..clock : AllowedIn(from, WINDOW_SECONDS) <= limit_per_minute
    /\ lastCheck.failed => lastCheck.result.is_allowed

\* ---- the four idempotent endpoints ----

\* C35: a rejected duplicate never releases.  A request answered 409 at the lock
\* has ended without holding or releasing the lock, and every call of
\* release_idempotency_lock is made by a request that has acquired the lock itself.
C35_RejectedNeverReleases ==
    /\ [](\A r \in Requests :
            /\ status[r] = HTTP_CONFLICT => (pc[r] = "done" /\ holds[r] = "no")
            /\ cStatus[r] = HTTP_CONFLICT => (cPc[r] = "done" /\ cHolds[r] = "no"))
    /\ [][\A r \in Requests :
            /\ (pc[r] = "release" /\ pc'[r] # "release") => holds[r] = "held"
            /\ (cPc[r] = "release" /\ cPc'[r] # "release") => cHolds[r] = "held"
            /\ holds'[r] # holds[r] => (holds[r] = "held" \/ holds'[r] = "held")
            /\ cHolds'[r] # cHolds[r] => (cHolds[r] = "held" \/ cHolds'[r] = "held")
         ]_<<vars, cachedVars>>

\* a proxy request was answered 409 while a payment order with its key is in
\* flight, and the lock of the order is still there
C35_Witness ==
    \E r1, r2 \in Requests :
        /\ cReq[r1].endpoint = "proxy"
        /\ cStatus[r1] = HTTP_CONFLICT
        /\ cPc[r1] = "done"
        /\ InFlight(r2)
        /\ req[r2].key = cReq[r1].key
        /\ lock[req[r2].key]

\* the request was answered with a response that another request has created
Replayed(r) == status[r] = HTTP_OK /\ resp[r] # r
CachedReplayed(r) == cStatus[r] = HTTP_OK /\ cResp[r] # r

\* C36: tenant isolation of replayed responses.  A request that is answered with
\* a stored response has the caller of the request that created the response:
\* the api key id for payment orders, the user id for the other endpoints.
C36_TenantIsolation ==
    \A r \in Requests :
        /\ Replayed(r) => req[resp[r]].apiKey = req[r].apiKey
        /\ CachedReplayed(r) => cReq[cResp[r]].user_id = cReq[r].user_id

\* a user's proxy response is cached, a request of another user with the same
\* key has run its own call, and a later request of that user was answered
\* with the response of its own
C36_Witness ==
    \E r1, r2 \in Requests :
        /\ r1 # r2
        /\ cReq[r1].user_id # cReq[r2].user_id
        /\ cReq[r1].key = cReq[r2].key
        /\ cStatus[r1] = HTTP_OK /\ cResp[r1] = r1
        /\ cStatus[r2] = HTTP_OK /\ cResp[r2] = r2
        /\ cache[idempotent_key(cReq[r1].user_id, cReq[r1].key)] = r1
        /\ cache[idempotent_key(cReq[r2].user_id, cReq[r2].key)] = r2

\* C37: operation isolation of replayed responses.  A request that is answered
\* with a stored response is a request to the endpoint that created the response.
C37_OperationIsolation ==
    \A r \in Requests :
        CachedReplayed(r) => cReq[cResp[r]].endpoint = cReq[r].endpoint

SignedByOneSecret ==
    /\ webhookCall.headers.sig # Absent
    /\ \E i \in 1..Len(RowsRead) :
           LET creds == Opens(RowsRead[i].encrypted_credential)
           IN  /\ RAZORPAY_WEBHOOK_SECRET \in DOMAIN creds
               /\ creds[RAZORPAY_WEBHOOK_SECRET] # EMPTY
               /\ webhookCall.headers.sig[1] =
                      HMAC_SHA256(creds[RAZORPAY_WEBHOOK_SECRET], webhookCall.body)

\* C39: webhook acceptance does not depend on the number of environments.  A
\* Razorpay delivery of a tenant with at most one active credential per
\* environment, signed under the webhook secret of one of them, is accepted.
C39_AcceptedInEveryEnvironment ==
    (/\ webhookCall.endpoint = "razorpay"
     /\ webhookCall.body.json
     /\ \A e \in Environments : Len(ActiveRows(webhookCall.table, e)) <= 1
     /\ SignedByOneSecret) => ~Rejected

\* the delivery passed its provider's verification: a Razorpay signature that is
\* the HMAC of the body under a stored webhook secret, a PayPal delivery that
\* PayPal's verification API reported as SUCCESS
Verified ==
    \/ webhookCall.endpoint = "razorpay" /\ SignedByOneSecret
    \/ webhookCall.endpoint = "paypal" /\ webhookCall.api = "SUCCESS"

\* C40: only verified webhooks leave a trace.  A delivery that is rejected leaves
\* webhook_events and the credentials as they were and schedules no forwarding
\* task; a delivery that is accepted has passed verification, has added exactly
\* one row, its own, to webhook_events and has scheduled at most one forwarding task.
C40_OnlyVerifiedLeaveTrace ==
    webhookCall # NoDelivery =>
        LET response == webhookCall.response
        IN  /\ rows = webhookCall.table
            /\ events = response.events
            /\ Rejected => /\ response.events = webhookCall.log
                           /\ response.forwarded = <<>>
            /\ ~Rejected =>
                   /\ Verified
                   /\ response.events =
                          Append(webhookCall.log,
                                 WebhookEvent(webhookCall.endpoint,
                                              webhookCall.headers.sig[1]))
                   /\ Len(response.forwarded) <= 1

\* an accepted delivery that follows another one has scheduled its forwarding
C40_Witness ==
    /\ ~Rejected
    /\ Len(webhookCall.log) = 1
    /\ Len(webhookCall.response.events) = 2
    /\ Len(webhookCall.response.forwarded) = 1
====
